---- MODULE Spec2Model ----
(***************************************************************************)
(* Key lifecycle of the JWKS server: internal/keys.Manager on top of the   *)
(* encrypted key store internal/db.Manager and the AES-GCM sealer          *)
(* internal/crypto.Encryptor.                                              *)
(*                                                                         *)
(* Time is counted in abstract clock units.  The persisted expiry is       *)
(* expiry.Unix(), an integer, and the store compares it with               *)
(* time.Now().Unix(), so the model's integer clock is the clock the store  *)
(* sees.  The three seed lifetimes (10 s, 5 min, 1 h) and the hourly       *)
(* cleanup period keep their order, not their ratio.                       *)
(***************************************************************************)
EXTENDS Integers, Sequences, FiniteSets, TLC

\* ---------------------------------------------------------------- bounds
MaxTime == 4
MaxRows == 6
MaxLifetime == 2
MaxRetain == 1
MaxStopCalls == 2
MaxStarts == 2
MaxSaves == 3
MaxLen == 3
MaxByte == 1

\* ------------------------------------------------------ program constants
TenSecondKey == 1
FiveMinuteKey == 2
OneHourKey == 3
CleanupInterval == 3
NonceSize == 2
PublicExponent == 65537
StartRows == 4

Nil == [t |-> "nil"]

\* the passphrase the manager was built with, and another one
EncryptionKey == "passphrase-A"
OtherKey == "passphrase-B"

StopCallers == {"s1", "s2"}

\* the goroutine calling Start, and the pair of loops each Start call launches
Main == 0
Tasks == 1..MaxStarts

VARIABLES
    now,             \* time.Now(), in clock units
    keyLifetime,     \* Manager.keyLifetime
    keyRetainPeriod, \* Manager.keyRetainPeriod
    rows,            \* the keys table: sequence of [kid, key, exp]
    saved,           \* history: what a caller of the store saved, by id
    keys,            \* Manager.keys: the cache, a set of Key records
    currentKey,      \* Manager.currentKey
    rotated,         \* history: the ids rotateKey put in the cache, in lock order
    stopClosed,      \* stopCh is closed
    closeCount,      \* executions of close(m.stopCh)
    panicked,        \* the process died of a panic
    stopPc,          \* position of each goroutine calling Stop
    stopCalls,       \* Stop calls begun
    overlap,         \* some Stop call began while another was in flight
    mainPc,          \* position of the goroutine calling Start
    starts,          \* Start calls begun
    newKey,          \* rotateKey's local newKey, per goroutine running it
    rotPc,           \* position of each rotationLoop
    rotNext,         \* next tick of rotationLoop's ticker
    rotPending,      \* a tick waits in rotationLoop's ticker.C
    rotFailed,       \* some timer-triggered rotateKey returned an error
    cleanPc,         \* position of each cleanupLoop
    cleanNext,       \* next tick of cleanupLoop's ticker
    cleanPending,    \* a tick waits in cleanupLoop's ticker.C
    lastCleanup,     \* time of the last completed cleanup, -1 if none
    visitors,        \* authRateLimiter.visitors: client IP to its bucket
    exact,           \* history: per client IP, the bucket that gains one
                     \* token for every refill period elapsed
    stoppedBefore,   \* history: stopCh was closed when the Start call that
                     \* launched the task began
    lastCall         \* the answer a query is returning right now, or Nil

vars == <<now, keyLifetime, keyRetainPeriod, rows, saved, keys, currentKey, rotated,
          stopClosed, closeCount, panicked, stopPc, stopCalls,
          overlap, mainPc, starts, newKey, rotPc, rotNext, rotPending,
          rotFailed, cleanPc, cleanNext, cleanPending, lastCleanup,
          visitors, exact, stoppedBefore, lastCall>>

\* ------------------------------------------------------------ the sealer

\* sha256.Sum256(passphrase): one-way, injective on the passphrases used
DeriveKey(passphrase) == [sha256 |-> passphrase]

\* mutant of NewEncryptor: the empty passphrase is hashed like any other
NewEncryptorAnyPassphrase(passphrase) ==
    [err |-> "none", key |-> DeriveKey(passphrase)]

\* NewEncryptor: no encryptor for the empty passphrase
NewEncryptor(passphrase) ==
    IF passphrase = ""
    THEN [err |-> "ErrEmptyPassphrase", key |-> Nil]
    ELSE [err |-> "none", key |-> DeriveKey(passphrase)]

\* db.NewManager: the database is opened first, then the encryptor is made;
\* either failure gives no manager.  dbOk is whether the database opened.
DbNewManager(dbOk, encryptionKey) ==
    IF ~dbOk
    THEN [err |-> "failed to initialize database", mgr |-> Nil]
    ELSE IF NewEncryptor(encryptionKey).err # "none"
    THEN [err |-> "failed to create encryptor: "
                     \o NewEncryptor(encryptionKey).err,
          mgr |-> Nil]
    ELSE [err |-> "none",
          mgr |-> [t |-> "db.Manager",
                   encryptor |-> NewEncryptor(encryptionKey).key]]

\* keys.NewManager: the store manager is built first and its failure gives
\* no manager
KeysNewManager(dbOk, lifetime, retain, encryptionKey) ==
    IF DbNewManager(dbOk, encryptionKey).err # "none"
    THEN [err |-> "failed to create database manager: "
                     \o DbNewManager(dbOk, encryptionKey).err,
          mgr |-> Nil]
    ELSE [err |-> "none",
          mgr |-> [t |-> "keys.Manager",
                   keyLifetime |-> lifetime,
                   keyRetainPeriod |-> retain,
                   dbManager |-> DbNewManager(dbOk, encryptionKey).mgr]]

\* the NonceSize bytes of a nonce
NonceBytes(nonce) == [i \in 1..NonceSize |-> [t |-> "nonce", v |-> nonce]]

\* mutant of Encrypt: aead.Seal(nil, nonce, plaintext, nil), the nonce is
\* not put in front
SealWithoutNonce(passphrase, plaintext, nonce) ==
    << [t |-> "box", k |-> DeriveKey(passphrase), n |-> nonce, pt |-> plaintext] >>

\* aead.Seal(nonce, nonce, plaintext, nil): the nonce, then the sealed box
Encrypt(passphrase, plaintext, nonce) ==
    NonceBytes(nonce) \o
    << [t |-> "box", k |-> DeriveKey(passphrase), n |-> nonce, pt |-> plaintext] >>

\* mutant of Open: the box opens under any key
OpenAnyKey(passphrase, nonce, encryptedData) ==
    IF /\ Len(encryptedData) = 1
       /\ Len(nonce) = NonceSize
       /\ encryptedData[1].t = "box"
       /\ \A i \in 1..NonceSize : nonce[i].t = "nonce"
       /\ \A i \in 1..NonceSize : nonce[i].v = encryptedData[1].n
    THEN [err |-> "none", data |-> encryptedData[1].pt]
    ELSE [err |-> "failed to decrypt data", data |-> << >>]

\* aead.Open(nil, nonce, encryptedData, nil)
Open(passphrase, nonce, encryptedData) ==
    IF /\ Len(encryptedData) = 1
       /\ Len(nonce) = NonceSize
       /\ encryptedData[1].t = "box"
       /\ \A i \in 1..NonceSize : nonce[i].t = "nonce"
       /\ encryptedData[1].k = DeriveKey(passphrase)
       /\ \A i \in 1..NonceSize : nonce[i].v = encryptedData[1].n
    THEN [err |-> "none", data |-> encryptedData[1].pt]
    ELSE [err |-> "failed to decrypt data", data |-> << >>]

\* mutant of Decrypt: only the empty blob is turned away before aead.Open
DecryptNoLengthCheck(passphrase, ciphertext) ==
    IF Len(ciphertext) = 0
    THEN [err |-> "ErrCiphertextTooShort", data |-> << >>]
    ELSE LET n == IF Len(ciphertext) < NonceSize THEN Len(ciphertext)
                  ELSE NonceSize
         IN  Open(passphrase,
                  SubSeq(ciphertext, 1, n),
                  SubSeq(ciphertext, n + 1, Len(ciphertext)))

\* Decrypt: a blob shorter than the nonce is turned away, the rest is split
\* into nonce and sealed box and opened
Decrypt(passphrase, ciphertext) ==
    IF Len(ciphertext) < NonceSize
    THEN [err |-> "ErrCiphertextTooShort", data |-> << >>]
    ELSE Open(passphrase,
              SubSeq(ciphertext, 1, NonceSize),
              SubSeq(ciphertext, NonceSize + 1, Len(ciphertext)))

\* ------------------------------------------------- RSA keys and their PEM

\* rsa.GenerateKey: every key generated has its own modulus; n names it
FreshKey(n) == [N |-> n, E |-> PublicExponent, D |-> n]

\* mutant of MarshalPKCS1: the private exponent is not written
MarshalPublicOnly(priv) == << 0, priv.N, priv.E, 0 >>

\* x509.MarshalPKCS1PrivateKey
MarshalPKCS1(priv) == << 0, priv.N, priv.E, priv.D >>

\* pem.EncodeToMemory(&pem.Block{Type: "RSA PRIVATE KEY", Bytes: pkcs1Bytes})
PemEncode(priv) ==
    << [t |-> "pem", type |-> "RSA PRIVATE KEY", der |-> MarshalPKCS1(priv)] >>

\* pem.Decode + the block type test + x509.ParsePKCS1PrivateKey
PemDecode(pemData) ==
    IF Len(pemData) = 0 \/ pemData[1].t # "pem"
        THEN [err |-> "invalid PEM block", key |-> Nil]
    ELSE IF pemData[1].type # "RSA PRIVATE KEY"
        THEN [err |-> "invalid PEM block", key |-> Nil]
    ELSE IF Len(pemData[1].der) # 4 \/ pemData[1].der[1] # 0
        THEN [err |-> "failed to parse private key", key |-> Nil]
    ELSE [err |-> "none",
          key |-> [N |-> pemData[1].der[2], E |-> pemData[1].der[3],
                   D |-> pemData[1].der[4]]]

\* ------------------------------------------------------------- the store

\* mutant of SealedBlob: the PEM block is inserted as it is
PlainBlob(priv, nonce) == PemEncode(priv)

\* what db.Manager.StoreKey hands to INSERT INTO keys (key, exp)
SealedBlob(priv, nonce) == Encrypt(EncryptionKey, PemEncode(priv), nonce)

\* db.Manager.StoreKey: the table after a successful insert; kid is the
\* AUTOINCREMENT primary key
StoreKey(table, priv, expiry, nonce) ==
    Append(table, [kid |-> Len(table) + 1,
                   key |-> SealedBlob(priv, nonce),
                   exp |-> expiry])

\* mutant of SelectRows: the expired query leaves out exp = now
SelectRowsStrict(expired) ==
    { i \in 1..Len(rows) :
        IF expired THEN rows[i].exp < now ELSE rows[i].exp > now }

\* SELECT kid, key FROM keys WHERE exp > ? / WHERE exp <= ?
SelectRows(expired) ==
    { i \in 1..Len(rows) :
        IF expired THEN rows[i].exp <= now ELSE rows[i].exp > now }

\* one row of getKeys: decrypt, decode, parse
ReadRow(i) ==
    LET d == Decrypt(EncryptionKey, rows[i].key) IN
    IF d.err # "none" THEN [err |-> d.err, key |-> Nil]
    ELSE PemDecode(d.data)

\* mutant of getKeys: a row that fails to decrypt or to parse is skipped
getKeysSkipping(expired) ==
    LET sel == { i \in SelectRows(expired) : ReadRow(i).err = "none" } IN
    [err |-> "none",
     keys |-> { [kid |-> rows[i].kid, priv |-> ReadRow(i).key] : i \in sel }]

\* db.Manager.getKeys: any failing row fails the whole query
getKeys(expired) ==
    LET sel == SelectRows(expired) IN
    IF \E i \in sel : ReadRow(i).err # "none"
    THEN [err |-> "error", keys |-> {}]
    ELSE [err |-> "none",
          keys |-> { [kid |-> rows[i].kid, priv |-> ReadRow(i).key] : i \in sel }]

\* db.Database.SaveKey (the plaintext store): the PEM block goes in as it is
SaveKey(table, priv, expiry) ==
    Append(table, [kid |-> Len(table) + 1,
                   key |-> PemEncode(priv),
                   exp |-> expiry])

\* deserializePEMKey: pem.Decode, then x509.ParsePKCS1PrivateKey
deserializePEMKey(pemData) ==
    IF Len(pemData) = 0 \/ pemData[1].t # "pem"
        THEN [err |-> "failed to decode PEM block", key |-> Nil]
    ELSE IF Len(pemData[1].der) # 4 \/ pemData[1].der[1] # 0
        THEN [err |-> "failed to parse PKCS1 private key", key |-> Nil]
    ELSE [err |-> "none",
          key |-> [N |-> pemData[1].der[2], E |-> pemData[1].der[3],
                   D |-> pemData[1].der[4]]]

\* db.Database.GetKeyByKid: SELECT kid, key, exp FROM keys WHERE kid = ?
GetKeyByKid(kid) ==
    IF kid \notin 1..Len(rows)
    THEN [err |-> "not found", Kid |-> kid, Key |-> Nil, Exp |-> 0]
    ELSE LET d == deserializePEMKey(rows[kid].key) IN
         IF d.err # "none"
         THEN [err |-> d.err, Kid |-> kid, Key |-> Nil, Exp |-> 0]
         ELSE [err |-> "none", Kid |-> rows[kid].kid, Key |-> d.key,
               Exp |-> rows[kid].exp]

\* ----------------------------------------------------------- the manager

\* the Key values of package keys
MakeKey(kid, priv, created, expires) ==
    [t |-> "key", ID |-> ToString(kid), CreatedAt |-> created,
     ExpiresAt |-> expires, PrivateKey |-> priv,
     PublicKey |-> [N |-> priv.N, E |-> priv.E]]

\* mutant of GetSigningKey: currentKey is handed out while it is valid
GetSigningKeyCached(expired) ==
    IF ~expired /\ currentKey # Nil /\ currentKey.ExpiresAt > now
    THEN { currentKey }
    ELSE LET r == getKeys(expired) IN
         IF r.err = "none" /\ r.keys # {}
         THEN { MakeKey(k.kid, k.priv, now - keyLifetime, now + keyLifetime) :
                  k \in r.keys }
         ELSE { Nil }

\* keys.Manager.GetSigningKey: every value the call can return now.  The
\* store's answer is a Go map and the first entry of a range over it is
\* returned, so any entry can be the one.
GetSigningKey(expired) ==
    LET r == getKeys(expired) IN
    IF r.err = "none" /\ r.keys # {}
    THEN { MakeKey(k.kid, k.priv, now - keyLifetime, now + keyLifetime) :
             k \in r.keys }
    ELSE { Nil }

\* mutant of CachePut: the map is replaced by one holding the new key only
CachePutAlone(cache, key) == [id \in {key.ID} |-> key]

RECURSIVE Orders(_)
\* the orders in which a range over a Go map can visit its entries: all
Orders(S) ==
    IF S = {} THEN { << >> }
    ELSE UNION { { << x >> \o rest : rest \in Orders(S \ {x}) } : x \in S }

\* keys.Manager.GetValidKeys: every slice the call can return now; a store
\* error, like an empty answer, gives the empty slice
GetValidKeys ==
    LET r == getKeys(FALSE) IN
    IF r.err = "none" /\ r.keys # {}
    THEN { [i \in 1..Len(o) |->
              MakeKey(o[i].kid, o[i].priv, now - keyLifetime, now + keyLifetime)] :
           o \in Orders(r.keys) }
    ELSE { << >> }

\* Key.ToJWK; n and e are the base64url texts of the modulus and exponent
ToJWK(key) ==
    [kty |-> "RSA", use |-> "sig", kid |-> key.ID,
     n |-> [base64url |-> key.PublicKey.N],
     e |-> [base64url |-> key.PublicKey.E],
     alg |-> "RS256"]

\* keys.Manager.GetJWKS: every listing the call can return now
GetJWKS ==
    { [i \in 1..Len(l) |-> ToJWK(l[i])] : l \in GetValidKeys }

\* m.keys[newKey.ID] = newKey
CachePut(cache, key) ==
    [id \in DOMAIN cache \cup {key.ID} |->
        IF id = key.ID THEN key ELSE cache[id]]

\* mutant of CleanedCache: the retention window is measured from creation
CleanedFromCreation(cache, retainUntil) ==
    [id \in { i \in DOMAIN cache : ~(cache[i].CreatedAt < retainUntil) } |->
        cache[id]]

\* the loop of cleanup: delete every key whose ExpiresAt.Before(retainUntil)
CleanedCache(cache, retainUntil) ==
    [id \in { i \in DOMAIN cache : ~(cache[i].ExpiresAt < retainUntil) } |->
        cache[id]]

\* ------------------------------------------------------------------ Init

PriorBlobs ==
    { Encrypt(EncryptionKey, PemEncode(FreshKey(0)), 0),
      Encrypt(OtherKey, PemEncode(FreshKey(0)), 0) }

\* what the database file can hold when the manager is built
PriorStores ==
    { << >> } \cup
    { << [kid |-> 1, key |-> b, exp |-> e] >> :
        b \in PriorBlobs, e \in {0, MaxTime + 1} }

Init ==
    /\ now = 0
    /\ keyLifetime \in 1..MaxLifetime
    /\ keyRetainPeriod \in 0..MaxRetain
    /\ rows \in PriorStores
    /\ saved = [k \in {} |-> Nil]
    /\ keys = [id \in {} |-> Nil]
    /\ currentKey = Nil
    /\ rotated = << >>
    /\ stopClosed = FALSE
    /\ closeCount = 0
    /\ panicked = FALSE
    /\ stopPc = [c \in StopCallers |-> "idle"]
    /\ stopCalls = 0
    /\ overlap = FALSE
    /\ mainPc = "new"
    /\ starts = 0
    /\ newKey = [p \in {Main} \cup Tasks |-> Nil]
    /\ rotPc = [g \in Tasks |-> "none"]
    /\ rotNext = [g \in Tasks |-> 0]
    /\ rotPending = [g \in Tasks |-> FALSE]
    /\ rotFailed = FALSE
    /\ cleanPc = [g \in Tasks |-> "none"]
    /\ cleanNext = [g \in Tasks |-> 0]
    /\ cleanPending = [g \in Tasks |-> FALSE]
    /\ lastCleanup = -1
    /\ visitors = [ip \in {} |-> Nil]
    /\ exact = [ip \in {} |-> Nil]
    /\ stoppedBefore = [g \in Tasks |-> FALSE]
    /\ lastCall = Nil

\* -------------------------------------------------------------- rotateKey

\* the table holds MaxRows rows at most, and the rows of one more Start call
\* (three test keys and the initial key) on top once Start was called again
RowCap == IF starts > 1 THEN MaxRows + StartRows ELSE MaxRows

\* rotateKey up to the store: GenerateRSAKeyPair, then StoreKey with
\* expiry = now + keyLifetime; newKey gets the store's id and that expiry.
\* ok = FALSE is a failed generation or a failed StoreKey: nothing changes.
RotateStore(p, ok) ==
    IF ok
    THEN /\ Len(rows) < RowCap
         /\ rows' = StoreKey(rows, FreshKey(Len(rows) + 1), now + keyLifetime,
                             Len(rows) + 1)
         /\ newKey' = [newKey EXCEPT ![p] =
                MakeKey(Len(rows) + 1, FreshKey(Len(rows) + 1), now,
                        now + keyLifetime)]
    ELSE UNCHANGED <<rows, newKey>>

\* rotateKey under m.mu: insert newKey in the cache and make it current
RotateCache(p) ==
    /\ keys' = CachePut(keys, newKey[p])
    /\ currentKey' = newKey[p]
    /\ rotated' = Append(rotated, newKey[p].ID)
    /\ newKey' = [newKey EXCEPT ![p] = Nil]

\* ------------------------------------------------------------------ Start

TestKeyDurations == << TenSecondKey, FiveMinuteKey, OneHourKey >>

RECURSIVE SeedRows(_, _)
\* the table after the first n test keys of generateEncryptedTestKeys
SeedRows(table, n) ==
    IF n = 0 THEN table
    ELSE LET t == SeedRows(table, n - 1) IN
         StoreKey(t, FreshKey(Len(t) + 1), now + TestKeyDurations[n], Len(t) + 1)

Alive == ~panicked

\* Start, line 47: generateEncryptedTestKeys stores n test keys; n < 3 is a
\* failure at test key n + 1, which Start returns
StartSeed(n) ==
    /\ Alive
    /\ mainPc = "new"
    /\ starts < MaxStarts
    /\ starts' = starts + 1
    /\ stoppedBefore' = [stoppedBefore EXCEPT ![starts + 1] = stopClosed]
    /\ Len(rows) + n <= MaxRows
    /\ rows' = SeedRows(rows, n)
    /\ mainPc' = IF n = 3 THEN "seeded" ELSE "failed"
    /\ lastCall' = Nil
    /\ UNCHANGED <<now, keyLifetime, saved, visitors, exact, keyRetainPeriod, keys, rotated, currentKey,
                   stopClosed, closeCount, panicked, stopPc, stopCalls, overlap,
                   newKey, rotPc, rotNext, rotPending, rotFailed, cleanPc,
                   cleanNext, cleanPending, lastCleanup>>

\* Start called again on a manager whose Start has returned nil: nothing in
\* Start looks at whether the manager was started before, so the call
\* begins as the first one did
Restart(n) ==
    /\ Alive
    /\ mainPc = "running"
    /\ starts < MaxStarts
    /\ starts' = starts + 1
    /\ stoppedBefore' = [stoppedBefore EXCEPT ![starts + 1] = stopClosed]
    /\ Len(rows) + n <= MaxRows + StartRows
    /\ rows' = SeedRows(rows, n)
    /\ mainPc' = IF n = 3 THEN "seeded" ELSE "failed"
    /\ lastCall' = Nil
    /\ UNCHANGED <<now, keyLifetime, saved, visitors, exact, keyRetainPeriod, keys, rotated, currentKey,
                   stopClosed, closeCount, panicked, stopPc, stopCalls, overlap,
                   newKey, rotPc, rotNext, rotPending, rotFailed, cleanPc,
                   cleanNext, cleanPending, lastCleanup>>

\* the two go statements of Start: one more rotationLoop, one more
\* cleanupLoop
LaunchTasks ==
    /\ rotPc' = [rotPc EXCEPT ![starts] = "spawned"]
    /\ cleanPc' = [cleanPc EXCEPT ![starts] = "spawned"]

\* mutant of StartRotate: the go statements come before the error check
StartRotateLaunched(ok) ==
    /\ Alive
    /\ mainPc = "seeded"
    /\ RotateStore(Main, ok)
    /\ LaunchTasks
    /\ mainPc' = IF ok THEN "rotating" ELSE "failed"
    /\ lastCall' = Nil
    /\ UNCHANGED <<starts, now, keyLifetime, saved, visitors, exact, stoppedBefore, keyRetainPeriod, keys, rotated, currentKey,
                   stopClosed, closeCount, panicked, stopPc, stopCalls, overlap,
                   rotNext, rotPending, rotFailed,
                   cleanNext, cleanPending, lastCleanup>>

\* Start, line 52: the initial rotateKey, up to the store
StartRotate(ok) ==
    /\ Alive
    /\ mainPc = "seeded"
    /\ RotateStore(Main, ok)
    /\ mainPc' = IF ok THEN "rotating" ELSE "failed"
    /\ lastCall' = Nil
    /\ UNCHANGED <<starts, now, keyLifetime, saved, visitors, exact, stoppedBefore, keyRetainPeriod, keys, rotated, currentKey,
                   stopClosed, closeCount, panicked, stopPc, stopCalls, overlap,
                   rotPc, rotNext, rotPending, rotFailed, cleanPc,
                   cleanNext, cleanPending, lastCleanup>>

\* Start, lines 52-59: the initial rotateKey updates the cache, both loops
\* are launched, Start returns nil
StartFinish ==
    /\ Alive
    /\ mainPc = "rotating"
    /\ RotateCache(Main)
    /\ LaunchTasks
    /\ mainPc' = "running"
    /\ lastCall' = Nil
    /\ UNCHANGED <<starts, now, keyLifetime, saved, visitors, exact, stoppedBefore, keyRetainPeriod, rows,
                   stopClosed, closeCount, panicked, stopPc, stopCalls, overlap,
                   rotNext, rotPending, rotFailed,
                   cleanNext, cleanPending, lastCleanup>>

\* ------------------------------------------------------------------- Stop

\* mutant of StopAlreadyClosed: Stop closes without looking at the channel
StopUnguarded(c) ==
    /\ Alive
    /\ stopPc[c] = "idle"
    /\ stopCalls < MaxStopCalls
    /\ stopClosed
    /\ stopCalls' = stopCalls + 1
    /\ overlap' = (overlap \/ \E d \in StopCallers \ {c} : stopPc[d] # "idle")
    /\ stopPc' = [stopPc EXCEPT ![c] = "default"]
    /\ lastCall' = Nil
    /\ UNCHANGED <<now, keyLifetime, saved, visitors, exact, stoppedBefore, keyRetainPeriod, rows, keys, rotated, currentKey,
                   stopClosed, closeCount, panicked, mainPc, starts, newKey,
                   rotPc, rotNext, rotPending, rotFailed, cleanPc, cleanNext,
                   cleanPending, lastCleanup>>

\* Stop, "case <-m.stopCh": the channel is closed already, Stop returns
StopAlreadyClosed(c) ==
    /\ Alive
    /\ stopPc[c] = "idle"
    /\ stopCalls < MaxStopCalls
    /\ stopClosed
    /\ stopCalls' = stopCalls + 1
    /\ overlap' = (overlap \/ \E d \in StopCallers \ {c} : stopPc[d] # "idle")
    /\ lastCall' = Nil
    /\ UNCHANGED <<now, keyLifetime, saved, visitors, exact, stoppedBefore, keyRetainPeriod, rows, keys, rotated, currentKey,
                   stopClosed, closeCount, panicked, stopPc, mainPc, starts, newKey,
                   rotPc, rotNext, rotPending, rotFailed, cleanPc, cleanNext,
                   cleanPending, lastCleanup>>

\* Stop, "default": the receive would block, so the caller goes on to close
StopDefault(c) ==
    /\ Alive
    /\ stopPc[c] = "idle"
    /\ stopCalls < MaxStopCalls
    /\ ~stopClosed
    /\ stopCalls' = stopCalls + 1
    /\ overlap' = (overlap \/ \E d \in StopCallers \ {c} : stopPc[d] # "idle")
    /\ stopPc' = [stopPc EXCEPT ![c] = "default"]
    /\ lastCall' = Nil
    /\ UNCHANGED <<now, keyLifetime, saved, visitors, exact, stoppedBefore, keyRetainPeriod, rows, keys, rotated, currentKey,
                   stopClosed, closeCount, panicked, mainPc, starts, newKey,
                   rotPc, rotNext, rotPending, rotFailed, cleanPc, cleanNext,
                   cleanPending, lastCleanup>>

\* Stop, line 101: close(m.stopCh); closing a closed channel panics
StopClose(c) ==
    /\ Alive
    /\ stopPc[c] = "default"
    /\ closeCount' = closeCount + 1
    /\ panicked' = stopClosed
    /\ stopClosed' = TRUE
    /\ stopPc' = [stopPc EXCEPT ![c] = "idle"]
    /\ lastCall' = Nil
    /\ UNCHANGED <<now, keyLifetime, saved, visitors, exact, stoppedBefore, keyRetainPeriod, rows, keys, rotated, currentKey,
                   stopCalls, overlap, mainPc, starts, newKey,
                   rotPc, rotNext, rotPending, rotFailed, cleanPc, cleanNext,
                   cleanPending, lastCleanup>>

\* ----------------------------------------------------------- rotationLoop

\* rotationLoop, line 188: time.NewTicker(m.keyLifetime), which panics on
\* an interval that is not positive
RotStart(g) ==
    /\ Alive
    /\ rotPc[g] = "spawned"
    /\ IF keyLifetime <= 0
       THEN /\ panicked' = TRUE
            /\ UNCHANGED <<rotNext, rotPending, rotPc>>
       ELSE /\ rotNext' = [rotNext EXCEPT ![g] = now + keyLifetime]
            /\ rotPending' = [rotPending EXCEPT ![g] = FALSE]
            /\ rotPc' = [rotPc EXCEPT ![g] = "select"]
            /\ UNCHANGED panicked
    /\ lastCall' = Nil
    /\ UNCHANGED <<now, keyLifetime, saved, visitors, exact, stoppedBefore, keyRetainPeriod, rows, keys, rotated, currentKey,
                   stopClosed, closeCount, stopPc, stopCalls, overlap,
                   mainPc, starts, newKey, rotFailed, cleanPc, cleanNext,
                   cleanPending, lastCleanup>>

\* mutant of RotTick: the loop returns when rotateKey fails
RotTickFatal(g, ok) ==
    /\ Alive
    /\ rotPc[g] = "select"
    /\ rotPending[g]
    /\ rotPending' = [rotPending EXCEPT ![g] = FALSE]
    /\ RotateStore(g, ok)
    /\ rotPc' = [rotPc EXCEPT ![g] = IF ok THEN "stored" ELSE "done"]
    /\ rotFailed' = (rotFailed \/ ~ok)
    /\ lastCall' = Nil
    /\ UNCHANGED <<now, keyLifetime, saved, visitors, exact, stoppedBefore, keyRetainPeriod, keys, rotated, currentKey,
                   stopClosed, closeCount, panicked, stopPc, stopCalls, overlap,
                   mainPc, starts, rotNext, cleanPc, cleanNext,
                   cleanPending, lastCleanup>>

\* mutant of RotTick: the generated key is cached before StoreKey, so a
\* failing rotateKey leaves its unsaved key in the cache
RotTickCachingFailure(g, ok) ==
    /\ Alive
    /\ rotPc[g] = "select"
    /\ rotPending[g]
    /\ rotPending' = [rotPending EXCEPT ![g] = FALSE]
    /\ RotateStore(g, ok)
    /\ IF ok THEN UNCHANGED <<keys, currentKey>>
       ELSE /\ keys' = CachePut(keys, MakeKey(0, FreshKey(0), now, now + keyLifetime))
            /\ currentKey' = MakeKey(0, FreshKey(0), now, now + keyLifetime)
    /\ rotPc' = [rotPc EXCEPT ![g] = IF ok THEN "stored" ELSE "select"]
    /\ rotFailed' = (rotFailed \/ ~ok)
    /\ lastCall' = Nil
    /\ UNCHANGED <<now, keyLifetime, saved, visitors, exact, stoppedBefore, keyRetainPeriod, rotated,
                   stopClosed, closeCount, panicked, stopPc, stopCalls, overlap,
                   mainPc, starts, rotNext, cleanPc, cleanNext,
                   cleanPending, lastCleanup>>

\* rotationLoop, "case <-ticker.C": rotateKey up to the store; its error is
\* dropped and the loop goes on
RotTick(g, ok) ==
    /\ Alive
    /\ rotPc[g] = "select"
    /\ rotPending[g]
    /\ rotPending' = [rotPending EXCEPT ![g] = FALSE]
    /\ RotateStore(g, ok)
    /\ rotPc' = [rotPc EXCEPT ![g] = IF ok THEN "stored" ELSE "select"]
    /\ rotFailed' = (rotFailed \/ ~ok)
    /\ lastCall' = Nil
    /\ UNCHANGED <<now, keyLifetime, saved, visitors, exact, stoppedBefore, keyRetainPeriod, keys, rotated, currentKey,
                   stopClosed, closeCount, panicked, stopPc, stopCalls, overlap,
                   mainPc, starts, rotNext, cleanPc, cleanNext,
                   cleanPending, lastCleanup>>

\* the rest of that rotateKey: the cache update under m.mu
RotCache(g) ==
    /\ Alive
    /\ rotPc[g] = "stored"
    /\ RotateCache(g)
    /\ rotPc' = [rotPc EXCEPT ![g] = "select"]
    /\ lastCall' = Nil
    /\ UNCHANGED <<now, keyLifetime, saved, visitors, exact, stoppedBefore, keyRetainPeriod, rows,
                   stopClosed, closeCount, panicked, stopPc, stopCalls, overlap,
                   mainPc, starts, rotNext, rotPending, rotFailed, cleanPc, cleanNext,
                   cleanPending, lastCleanup>>

\* mutant of RotExit: stopCh is looked at only when a tick has arrived
RotExitOnTick(g) ==
    /\ Alive
    /\ rotPc[g] = "select"
    /\ stopClosed
    /\ rotPending[g]
    /\ rotPc' = [rotPc EXCEPT ![g] = "done"]
    /\ rotPending' = [rotPending EXCEPT ![g] = FALSE]
    /\ lastCall' = Nil
    /\ UNCHANGED <<now, keyLifetime, saved, visitors, exact, stoppedBefore, keyRetainPeriod, rows, keys, rotated, currentKey,
                   stopClosed, closeCount, panicked, stopPc, stopCalls, overlap,
                   mainPc, starts, newKey, rotNext, rotFailed, cleanPc, cleanNext,
                   cleanPending, lastCleanup>>

\* rotationLoop, "case <-m.stopCh": return (and the deferred ticker.Stop)
RotExit(g) ==
    /\ Alive
    /\ rotPc[g] = "select"
    /\ stopClosed
    /\ rotPc' = [rotPc EXCEPT ![g] = "done"]
    /\ rotPending' = [rotPending EXCEPT ![g] = FALSE]
    /\ lastCall' = Nil
    /\ UNCHANGED <<now, keyLifetime, saved, visitors, exact, stoppedBefore, keyRetainPeriod, rows, keys, rotated, currentKey,
                   stopClosed, closeCount, panicked, stopPc, stopCalls, overlap,
                   mainPc, starts, newKey, rotNext, rotFailed, cleanPc, cleanNext,
                   cleanPending, lastCleanup>>

\* ------------------------------------------------------------ cleanupLoop

\* cleanupLoop, line 203: time.NewTicker(time.Hour)
CleanStart(g) ==
    /\ Alive
    /\ cleanPc[g] = "spawned"
    /\ cleanNext' = [cleanNext EXCEPT ![g] = now + CleanupInterval]
    /\ cleanPending' = [cleanPending EXCEPT ![g] = FALSE]
    /\ cleanPc' = [cleanPc EXCEPT ![g] = "select"]
    /\ lastCall' = Nil
    /\ UNCHANGED <<now, keyLifetime, saved, visitors, exact, stoppedBefore, keyRetainPeriod, rows, keys, rotated, currentKey,
                   stopClosed, closeCount, panicked, stopPc, stopCalls, overlap,
                   mainPc, starts, newKey, rotPc, rotNext, rotPending, rotFailed,
                   lastCleanup>>

\* cleanupLoop, "case <-ticker.C": cleanup, under m.mu
CleanTick(g) ==
    /\ Alive
    /\ cleanPc[g] = "select"
    /\ cleanPending[g]
    /\ cleanPending' = [cleanPending EXCEPT ![g] = FALSE]
    /\ keys' = CleanedCache(keys, now - keyRetainPeriod)
    /\ lastCleanup' = now
    /\ lastCall' = Nil
    /\ UNCHANGED <<rotated, now, keyLifetime, saved, visitors, exact, stoppedBefore, keyRetainPeriod, rows, currentKey,
                   stopClosed, closeCount, panicked, stopPc, stopCalls, overlap,
                   mainPc, starts, newKey, rotPc, rotNext, rotPending, rotFailed,
                   cleanPc, cleanNext>>

\* cleanupLoop, "case <-m.stopCh": return
CleanExit(g) ==
    /\ Alive
    /\ cleanPc[g] = "select"
    /\ stopClosed
    /\ cleanPc' = [cleanPc EXCEPT ![g] = "done"]
    /\ cleanPending' = [cleanPending EXCEPT ![g] = FALSE]
    /\ lastCall' = Nil
    /\ UNCHANGED <<now, keyLifetime, saved, visitors, exact, stoppedBefore, keyRetainPeriod, rows, keys, rotated, currentKey,
                   stopClosed, closeCount, panicked, stopPc, stopCalls, overlap,
                   mainPc, starts, newKey, rotPc, rotNext, rotPending, rotFailed,
                   cleanNext, lastCleanup>>

\* -------------------------------------------------------------- the clock

\* a ticker exists from NewTicker until ticker.Stop
RotTicker(g) == rotPc[g] \in {"select", "stored"}
CleanTicker(g) == cleanPc[g] = "select"

\* the steps of the background goroutines
RotationLoop(g) ==
    RotStart(g) \/ (\E ok \in BOOLEAN : RotTick(g, ok)) \/ RotCache(g) \/ RotExit(g)
CleanupLoop(g) == CleanStart(g) \/ CleanTick(g) \/ CleanExit(g)

\* a background goroutine can take a step now
TaskRunnable == ENABLED (\E g \in Tasks : RotationLoop(g) \/ CleanupLoop(g))

\* one clock unit passes.  The clock starts with Start; Start's four key
\* generations take less than one clock unit, and a background goroutine
\* that can run does so before the unit is over.  A ticker whose time has come puts a tick in its
\* channel (capacity one: a tick nobody took yet is not doubled)
Tick ==
    /\ Alive
    /\ now < MaxTime
    /\ mainPc \in {"running", "failed"}
    /\ ~TaskRunnable
    /\ now' = now + 1
    /\ rotPending' = [g \in Tasks |->
            rotPending[g] \/ (RotTicker(g) /\ now + 1 >= rotNext[g])]
    /\ rotNext' = [g \in Tasks |->
            IF RotTicker(g) /\ now + 1 >= rotNext[g]
            THEN rotNext[g] + keyLifetime ELSE rotNext[g]]
    /\ cleanPending' = [g \in Tasks |->
            cleanPending[g] \/ (CleanTicker(g) /\ now + 1 >= cleanNext[g])]
    /\ cleanNext' = [g \in Tasks |->
            IF CleanTicker(g) /\ now + 1 >= cleanNext[g]
            THEN cleanNext[g] + CleanupInterval ELSE cleanNext[g]]
    /\ lastCall' = Nil
    /\ UNCHANGED <<keyLifetime, saved, visitors, exact, stoppedBefore, keyRetainPeriod, rows, keys, rotated, currentKey,
                   stopClosed, closeCount, panicked, stopPc, stopCalls, overlap,
                   mainPc, starts, newKey, rotPc, rotFailed, cleanPc, lastCleanup>>

\* ---------------------------------------------------------------- queries

\* a caller (handleAuth) gets the answer of GetSigningKey(expired); dberr is
\* the error the store returned inside the call
CallGetSigningKey(expired) ==
    /\ Alive
    /\ lastCall = Nil
    /\ \E r \in GetSigningKey(expired) :
          lastCall' = [t |-> "call", op |-> "GetSigningKey", expired |-> expired,
                       dberr |-> getKeys(expired).err, ret |-> r]
    /\ UNCHANGED <<now, keyLifetime, saved, visitors, exact, stoppedBefore, keyRetainPeriod, rows, keys, rotated, currentKey,
                   stopClosed, closeCount, panicked, stopPc, stopCalls, overlap,
                   mainPc, starts, newKey, rotPc, rotNext, rotPending, rotFailed,
                   cleanPc, cleanNext, cleanPending, lastCleanup>>

\* the caller is done with the answer
Return ==
    /\ Alive
    /\ lastCall # Nil
    /\ lastCall' = Nil
    /\ UNCHANGED <<now, keyLifetime, saved, visitors, exact, stoppedBefore, keyRetainPeriod, rows, keys, rotated, currentKey,
                   stopClosed, closeCount, panicked, stopPc, stopCalls, overlap,
                   mainPc, starts, newKey, rotPc, rotNext, rotPending, rotFailed,
                   cleanPc, cleanNext, cleanPending, lastCleanup>>

\* ------------------------------------------------------------------- Next

Next ==
    \/ \E n \in 0..3 : StartSeed(n)
    \/ \E ok \in BOOLEAN : StartRotate(ok)
    \/ StartFinish
    \/ \E c \in StopCallers : StopAlreadyClosed(c)
    \/ \E c \in StopCallers : StopDefault(c)
    \/ \E c \in StopCallers : StopClose(c)
    \/ \E g \in Tasks : RotStart(g)
    \/ \E g \in Tasks, ok \in BOOLEAN : RotTick(g, ok)
    \/ \E g \in Tasks : RotCache(g)
    \/ \E g \in Tasks : RotExit(g)
    \/ \E g \in Tasks : CleanStart(g)
    \/ \E g \in Tasks : CleanTick(g)
    \/ \E g \in Tasks : CleanExit(g)
    \/ Tick
    \/ \E expired \in BOOLEAN : CallGetSigningKey(expired)
    \/ Return

Spec == Init /\ [][Next]_vars

\* the manager in the hands of a caller that calls Start again while it is
\* running (cmd/jwks-srv/main.go calls it once), on a new database file;
\* this caller does not call Stop and asks for no signing key
RestartNext ==
    \/ \E n \in 0..3 : StartSeed(n)
    \/ \E n \in 0..3 : Restart(n)
    \/ \E ok \in BOOLEAN : StartRotate(ok)
    \/ StartFinish
    \/ \E g \in Tasks : RotStart(g)
    \/ \E g \in Tasks, ok \in BOOLEAN : RotTick(g, ok)
    \/ \E g \in Tasks : RotCache(g)
    \/ \E g \in Tasks : CleanStart(g)
    \/ \E g \in Tasks : CleanTick(g)
    \/ Tick

RestartInit ==
    /\ Init
    /\ rows = << >>

RestartSpec == RestartInit /\ [][RestartNext]_vars

\* the same caller, who also calls Stop, before or after any of the Starts,
\* one call at a time
RerunNext ==
    \/ \E n \in 0..3 : StartSeed(n)
    \/ \E n \in 0..3 : Restart(n)
    \/ \E ok \in BOOLEAN : StartRotate(ok)
    \/ StartFinish
    \/ StopAlreadyClosed("s1")
    \/ StopDefault("s1")
    \/ StopClose("s1")
    \/ \E g \in Tasks : RotStart(g)
    \/ \E g \in Tasks, ok \in BOOLEAN : RotTick(g, ok)
    \/ \E g \in Tasks : RotCache(g)
    \/ \E g \in Tasks : RotExit(g)
    \/ \E g \in Tasks : CleanStart(g)
    \/ \E g \in Tasks : CleanTick(g)
    \/ \E g \in Tasks : CleanExit(g)
    \/ Tick

\* a manager that rotates at every clock unit and retains nothing
RerunInit ==
    /\ RestartInit
    /\ keyLifetime = 1
    /\ keyRetainPeriod = 0

RerunSpec == RerunInit /\ [][RerunNext]_vars

\* ------------------------------------------- the store, used on its own

\* the fields of the Lifecycle Manager, which a caller of the store alone
\* leaves as they are
managerVars ==
    <<keyLifetime, keyRetainPeriod, keys, currentKey, rotated, stopClosed,
      closeCount, panicked, stopPc, stopCalls, overlap, mainPc, starts,
      newKey, rotPc, rotNext, rotPending, rotFailed, cleanPc, cleanNext,
      cleanPending, lastCleanup, visitors, exact, stoppedBefore>>

\* db.Database.SaveKey(privateKey, expTime) returns the new id
DbSaveKey(e) ==
    /\ Cardinality(DOMAIN saved) < MaxSaves
    /\ rows' = SaveKey(rows, FreshKey(Len(rows) + 1), e)
    /\ saved' = [k \in DOMAIN saved \cup {Len(rows) + 1} |->
                   IF k = Len(rows) + 1
                   THEN [store |-> "plain", priv |-> FreshKey(k), exp |-> e]
                   ELSE saved[k]]
    /\ lastCall' = [t |-> "call", op |-> "SaveKey", ret |-> Len(rows) + 1]
    /\ UNCHANGED <<now, managerVars>>

\* db.Manager.StoreKey(privateKey, expiry) returns the new id
DbStoreKey(e) ==
    /\ Cardinality(DOMAIN saved) < MaxSaves
    /\ rows' = StoreKey(rows, FreshKey(Len(rows) + 1), e, Len(rows) + 1)
    /\ saved' = [k \in DOMAIN saved \cup {Len(rows) + 1} |->
                   IF k = Len(rows) + 1
                   THEN [store |-> "sealed", priv |-> FreshKey(k), exp |-> e]
                   ELSE saved[k]]
    /\ lastCall' = [t |-> "call", op |-> "StoreKey", ret |-> Len(rows) + 1]
    /\ UNCHANGED <<now, managerVars>>

\* db.Database.GetKeyByKid(kid)
DbGetKeyByKid(kid) ==
    /\ lastCall' = [t |-> "call", op |-> "GetKeyByKid", kid |-> kid,
                    ret |-> GetKeyByKid(kid)]
    /\ UNCHANGED <<now, rows, saved, managerVars>>

\* db.Manager.GetValidKeys() / GetExpiredKeys()
DbGetKeys(expired) ==
    /\ lastCall' = [t |-> "call", op |-> "getKeys", expired |-> expired,
                    ret |-> getKeys(expired)]
    /\ UNCHANGED <<now, rows, saved, managerVars>>

\* one clock unit passes
DbTick ==
    /\ now < MaxTime
    /\ now' = now + 1
    /\ lastCall' = Nil
    /\ UNCHANGED <<rows, saved, managerVars>>

StoreNext ==
    \/ \E e \in {now, now + 1} : DbSaveKey(e)
    \/ \E e \in {now, now + 1} : DbStoreKey(e)
    \/ \E kid \in 1..(MaxSaves + 1) : DbGetKeyByKid(kid)
    \/ \E expired \in BOOLEAN : DbGetKeys(expired)
    \/ DbTick

\* the store in the hands of a caller that saves and reads keys, on a
\* database file as the manager can find it
StoreInit ==
    /\ Init
    /\ keyLifetime = 1
    /\ keyRetainPeriod = 0

StoreSpec == StoreInit /\ [][StoreNext]_vars

\* ------------------------------------------ the sealer, used on its own

Bytes == 0..MaxByte
ByteSeqs == UNION { [1..n -> Bytes] : n \in 0..MaxLen }
Passphrases == {EncryptionKey, OtherKey}

\* NewEncryptor(passphrase)
SealerNew(passphrase) ==
    /\ lastCall' = [t |-> "call", op |-> "NewEncryptor",
                    passphrase |-> passphrase, ret |-> NewEncryptor(passphrase)]
    /\ UNCHANGED <<now, rows, saved, managerVars>>

\* db.NewManager(dbPath, encryptionKey)
CallDbNewManager(dbOk, passphrase) ==
    /\ lastCall' = [t |-> "call", op |-> "db.NewManager",
                    passphrase |-> passphrase, dbOk |-> dbOk,
                    ret |-> DbNewManager(dbOk, passphrase)]
    /\ UNCHANGED <<now, rows, saved, managerVars>>

\* keys.NewManager(keyLifetime, keyRetainPeriod, encryptionKey)
CallKeysNewManager(dbOk, passphrase) ==
    /\ lastCall' = [t |-> "call", op |-> "keys.NewManager",
                    passphrase |-> passphrase, dbOk |-> dbOk,
                    ret |-> KeysNewManager(dbOk, keyLifetime, keyRetainPeriod,
                                           passphrase)]
    /\ UNCHANGED <<now, rows, saved, managerVars>>

\* Encryptor.Encrypt(plaintext) on the encryptor of a passphrase; nonce is
\* what rand.Reader gave
SealerEncrypt(passphrase, plaintext, nonce) ==
    /\ NewEncryptor(passphrase).err = "none"
    /\ lastCall' = [t |-> "call", op |-> "Encrypt", passphrase |-> passphrase,
                    plaintext |-> plaintext,
                    ret |-> Encrypt(passphrase, plaintext, nonce)]
    /\ UNCHANGED <<now, rows, saved, managerVars>>

\* Encryptor.Decrypt on the output of the Encrypt call just made, by the
\* encryptor of a passphrase
SealerDecrypt(passphrase) ==
    /\ lastCall # Nil
    /\ lastCall.op = "Encrypt"
    /\ NewEncryptor(passphrase).err = "none"
    /\ lastCall' = [t |-> "call", op |-> "Decrypt", passphrase |-> passphrase,
                    sealedWith |-> lastCall.passphrase,
                    plaintext |-> lastCall.plaintext,
                    ciphertext |-> lastCall.ret,
                    ret |-> Decrypt(passphrase, lastCall.ret)]
    /\ UNCHANGED <<now, rows, saved, managerVars>>

\* a blob of bytes that no Encrypt call produced
RawBlob(bytes) == [i \in 1..Len(bytes) |-> [t |-> "byte", v |-> bytes[i]]]

\* Encryptor.Decrypt on arbitrary bytes
SealerDecryptBlob(passphrase, bytes) ==
    /\ NewEncryptor(passphrase).err = "none"
    /\ lastCall' = [t |-> "call", op |-> "DecryptBlob",
                    passphrase |-> passphrase,
                    ciphertext |-> RawBlob(bytes),
                    ret |-> Decrypt(passphrase, RawBlob(bytes))]
    /\ UNCHANGED <<now, rows, saved, managerVars>>

\* Encryptor.Decrypt on the first n bytes of the output of the Encrypt call
\* just made
SealerDecryptTruncated(passphrase, n) ==
    /\ lastCall # Nil
    /\ lastCall.op = "Encrypt"
    /\ n < Len(lastCall.ret)
    /\ NewEncryptor(passphrase).err = "none"
    /\ lastCall' = [t |-> "call", op |-> "DecryptBlob",
                    passphrase |-> passphrase,
                    ciphertext |-> SubSeq(lastCall.ret, 1, n),
                    ret |-> Decrypt(passphrase, SubSeq(lastCall.ret, 1, n))]
    /\ UNCHANGED <<now, rows, saved, managerVars>>

SealerNext ==
    \/ \E passphrase \in Passphrases \cup {""} : SealerNew(passphrase)
    \/ \E passphrase \in Passphrases \cup {""}, dbOk \in BOOLEAN :
          CallDbNewManager(dbOk, passphrase)
    \/ \E passphrase \in Passphrases \cup {""}, dbOk \in BOOLEAN :
          CallKeysNewManager(dbOk, passphrase)
    \/ \E passphrase \in Passphrases, plaintext \in ByteSeqs, nonce \in Bytes :
          SealerEncrypt(passphrase, plaintext, nonce)
    \/ \E passphrase \in Passphrases : SealerDecrypt(passphrase)
    \/ \E passphrase \in Passphrases, bytes \in ByteSeqs :
          SealerDecryptBlob(passphrase, bytes)
    \/ \E passphrase \in Passphrases, n \in 0..NonceSize :
          SealerDecryptTruncated(passphrase, n)

SealerInit ==
    /\ StoreInit
    /\ rows = << >>

SealerSpec == SealerInit /\ [][SealerNext]_vars

\* ------------------------------------------------ the tokens of /auth

\* time.Time and time.Duration count in units finer than the second of
\* Time.Unix(); the model's unit is 1/TicksPerSecond of a second
TicksPerSecond == 2
MaxClock == 3
MaxDur == 3
SigLen == 1
MaxData == 5

\* bytes whose 6-bit chunks reach both ends of the alphabet
Octets == {0, 1, 251, 255}
OctetSeqs == UNION { [1..n -> Octets] : n \in 0..MaxData }

\* mutant of Alphabet: the alphabet of standard base64
StdAlphabet ==
    << "A", "B", "C", "D", "E", "F", "G", "H", "I", "J", "K", "L", "M",
       "N", "O", "P", "Q", "R", "S", "T", "U", "V", "W", "X", "Y", "Z",
       "a", "b", "c", "d", "e", "f", "g", "h", "i", "j", "k", "l", "m",
       "n", "o", "p", "q", "r", "s", "t", "u", "v", "w", "x", "y", "z",
       "0", "1", "2", "3", "4", "5", "6", "7", "8", "9", "+", "/" >>

\* const alphabet of encodeBase64URL; a string is the sequence of its
\* characters
Alphabet ==
    << "A", "B", "C", "D", "E", "F", "G", "H", "I", "J", "K", "L", "M",
       "N", "O", "P", "Q", "R", "S", "T", "U", "V", "W", "X", "Y", "Z",
       "a", "b", "c", "d", "e", "f", "g", "h", "i", "j", "k", "l", "m",
       "n", "o", "p", "q", "r", "s", "t", "u", "v", "w", "x", "y", "z",
       "0", "1", "2", "3", "4", "5", "6", "7", "8", "9", "-", "_" >>

\* mutant of encodeBase64URL: every group gives 4 symbols, "=" for the
\* missing ones, as base64.URLEncoding does
RECURSIVE EncodePadded(_, _)
EncodePadded(data, i) ==
    IF i >= Len(data) THEN << >>
    ELSE LET b1 == data[i + 1]
             b2 == IF i + 1 < Len(data) THEN data[i + 2] ELSE 0
             b3 == IF i + 2 < Len(data) THEN data[i + 3] ELSE 0
             combined == (b1 * 65536) + (b2 * 256) + b3
         IN  << Alphabet[((combined \div 262144) % 64) + 1],
                Alphabet[((combined \div 4096) % 64) + 1],
                IF i + 1 < Len(data)
                    THEN Alphabet[((combined \div 64) % 64) + 1] ELSE "=",
                IF i + 2 < Len(data)
                    THEN Alphabet[(combined % 64) + 1] ELSE "=" >>
             \o EncodePadded(data, i + 3)

encodeBase64URLPadded(data) ==
    IF Len(data) = 0 THEN << >> ELSE EncodePadded(data, 0)

\* the loop of encodeBase64URL from offset i: 3 bytes are combined into 24
\* bits and the 6-bit chunks that hold input bits are emitted
RECURSIVE EncodeGroups(_, _)
EncodeGroups(data, i) ==
    IF i >= Len(data) THEN << >>
    ELSE LET b1 == data[i + 1]
             b2 == IF i + 1 < Len(data) THEN data[i + 2] ELSE 0
             b3 == IF i + 2 < Len(data) THEN data[i + 3] ELSE 0
             combined == (b1 * 65536) + (b2 * 256) + b3
         IN  << Alphabet[((combined \div 262144) % 64) + 1],
                Alphabet[((combined \div 4096) % 64) + 1] >>
             \o (IF i + 1 < Len(data)
                 THEN << Alphabet[((combined \div 64) % 64) + 1] >>
                 ELSE << >>)
             \o (IF i + 2 < Len(data)
                 THEN << Alphabet[(combined % 64) + 1] >>
                 ELSE << >>)
             \o EncodeGroups(data, i + 3)

encodeBase64URL(data) ==
    IF Len(data) = 0 THEN << >> ELSE EncodeGroups(data, 0)

RECURSIVE Digits(_)
\* the decimal digits of a natural number, in ASCII
Digits(n) ==
    IF n < 10 THEN << 48 + n >> ELSE Digits(n \div 10) \o << 48 + (n % 10) >>

\* strconv of an int64, as json.Marshal writes it
Decimal(n) == IF n < 0 THEN << 45 >> \o Digits(0 - n) ELSE Digits(n)

\* json.Marshal(header): {"alg":"RS256","typ":"JWT","kid":"<kid>"}
MarshalHeader(header) ==
    << 123, 34, 97, 108, 103, 34, 58, 34, 82, 83, 50, 53, 54, 34, 44, 34,
       116, 121, 112, 34, 58, 34, 74, 87, 84, 34, 44, 34, 107, 105, 100, 34,
       58, 34 >>
    \o header.Kid \o
    << 34, 125 >>

\* json.Marshal(payload):
\* {"iss":"<iss>","sub":"user123","aud":"jwks-client","exp":<exp>,"iat":<iat>}
MarshalPayload(payload) ==
    << 123, 34, 105, 115, 115, 34, 58, 34 >>
    \o payload.Iss \o
    << 34, 44, 34, 115, 117, 98, 34, 58, 34, 117, 115, 101, 114, 49, 50, 51,
       34, 44, 34, 97, 117, 100, 34, 58, 34, 106, 119, 107, 115, 45, 99, 108,
       105, 101, 110, 116, 34, 44, 34, 101, 120, 112, 34, 58 >>
    \o Decimal(payload.Exp) \o
    << 44, 34, 105, 97, 116, 34, 58 >>
    \o Decimal(payload.Iat) \o << 125 >>

\* Time.Unix(): the whole seconds of a time
Unix(t) == t \div TicksPerSecond

\* mutant of MakePayload: a negative lifetime counts as none
MakePayloadClamped(issuer, expiry, clock) ==
    [Iss |-> issuer,
     Exp |-> Unix(clock + (IF expiry < 0 THEN 0 ELSE expiry)),
     Iat |-> Unix(clock)]

\* the Payload that CreateJWT builds at time clock
MakePayload(issuer, expiry, clock) ==
    [Iss |-> issuer, Exp |-> Unix(clock + expiry), Iat |-> Unix(clock)]

\* what signRS256 can return: an error, or the signature, as long as the
\* modulus, whose bytes the model leaves open
SignResults ==
    { [err |-> "signing error", sig |-> << >>] } \cup
    { [err |-> "none", sig |-> sg] : sg \in [1..SigLen -> Octets] }

\* CreateJWT(privKey, kid, issuer, expiry) run at time clock, where signed
\* is what signRS256 gave for the message
CreateJWT(kid, issuer, expiry, clock, signed) ==
    LET headerB64 == encodeBase64URL(MarshalHeader([Kid |-> kid]))
        payloadB64 ==
            encodeBase64URL(MarshalPayload(MakePayload(issuer, expiry, clock)))
        message == headerB64 \o << "." >> \o payloadB64
    IN  IF signed.err # "none"
        THEN [err |-> "signing error", token |-> << >>]
        ELSE [err |-> "none",
              token |-> message \o << "." >> \o encodeBase64URL(signed.sig)]

\* the kid strings of keys.Key.ID and the issuers, in ASCII
KidStrings == { Decimal(k) : k \in {1, 10} }
Issuers == { << >>, << 106 >>, << 106, 119 >> }

\* a call is entered with its arguments and then returns
EncodeEnter(data) ==
    /\ lastCall = Nil
    /\ lastCall' = [t |-> "enter", op |-> "encodeBase64URL", data |-> data]
    /\ UNCHANGED <<now, rows, saved, managerVars>>

EncodeReturn ==
    /\ lastCall # Nil
    /\ lastCall.t = "enter"
    /\ lastCall.op = "encodeBase64URL"
    /\ lastCall' = [lastCall EXCEPT !.t = "call"] @@
                   [ret |-> encodeBase64URL(lastCall.data)]
    /\ UNCHANGED <<now, rows, saved, managerVars>>

CreateJWTEnter(kid, issuer, expiry, clock) ==
    /\ lastCall = Nil
    /\ lastCall' = [t |-> "enter", op |-> "CreateJWT", kid |-> kid,
                    issuer |-> issuer, expiry |-> expiry, clock |-> clock]
    /\ UNCHANGED <<now, rows, saved, managerVars>>

CreateJWTReturn(signed) ==
    /\ lastCall # Nil
    /\ lastCall.t = "enter"
    /\ lastCall.op = "CreateJWT"
    /\ lastCall' = [lastCall EXCEPT !.t = "call"] @@
                   [signed |-> signed,
                    ret |-> CreateJWT(lastCall.kid, lastCall.issuer,
                                      lastCall.expiry, lastCall.clock, signed)]
    /\ UNCHANGED <<now, rows, saved, managerVars>>

JwtNext ==
    \/ \E data \in OctetSeqs : EncodeEnter(data)
    \/ EncodeReturn
    \/ \E kid \in KidStrings, issuer \in Issuers,
          expiry \in (0 - MaxDur)..MaxDur, clock \in MaxDur..(MaxDur + MaxClock) :
          CreateJWTEnter(kid, issuer, expiry, clock)
    \/ \E signed \in SignResults : CreateJWTReturn(signed)

JwtSpec == SealerInit /\ [][JwtNext]_vars

\* Start, Stop and the loops without the signing-key queries, which write
\* nothing that Start, Stop or a loop reads
LiveNext ==
    \/ \E n \in 0..3 : StartSeed(n)
    \/ \E ok \in BOOLEAN : StartRotate(ok)
    \/ StartFinish
    \/ \E c \in StopCallers : StopAlreadyClosed(c)
    \/ \E c \in StopCallers : StopDefault(c)
    \/ \E c \in StopCallers : StopClose(c)
    \/ \E g \in Tasks : RotStart(g)
    \/ \E g \in Tasks, ok \in BOOLEAN : RotTick(g, ok)
    \/ \E g \in Tasks : RotCache(g)
    \/ \E g \in Tasks : RotExit(g)
    \/ \E g \in Tasks : CleanStart(g)
    \/ \E g \in Tasks : CleanTick(g)
    \/ \E g \in Tasks : CleanExit(g)
    \/ Tick

\* the Go scheduler runs a goroutine that can run: each background loop,
\* and a Stop call that has begun
LiveSpec ==
    /\ Init
    /\ [][LiveNext]_vars
    /\ WF_vars(\E g \in Tasks : RotationLoop(g))
    /\ WF_vars(\E g \in Tasks : CleanupLoop(g))
    /\ WF_vars(\E c \in StopCallers : StopClose(c))

\* ------------------------------------------------------------ POST /auth

\* defaultJWTLifetime, five minutes, on the scale of TestKeyDurations
JWTLifetime == 2

\* the lifetime handleAuth asks for: the configured one, or one in the past
\* when the expired parameter is present
AuthExpiry(expired) == IF expired THEN 0 - 1 ELSE JWTLifetime

\* mutant of HandleAuth: the expired parameter does not reach the choice
\* of the key, which is always taken among the expired ones
HandleAuthExpiredKey(method, expired) ==
    IF method # "POST" THEN { [status |-> 405, token |-> Nil] }
    ELSE { IF signingKey = Nil
           THEN [status |-> 500, token |-> Nil]
           ELSE [status |-> 200,
                 token |-> [kid |-> signingKey.ID, iat |-> now,
                            exp |-> now + AuthExpiry(expired),
                            signedBy |-> signingKey.PrivateKey]] :
           signingKey \in GetSigningKey(TRUE) }

\* handleAuth: every response the handler can give now.  The token is kept
\* as the claims CreateJWT puts in it and the private key that signed it.
HandleAuth(method, expired) ==
    IF method # "POST" THEN { [status |-> 405, token |-> Nil] }
    ELSE { IF signingKey = Nil
           THEN [status |-> 500, token |-> Nil]
           ELSE [status |-> 200,
                 token |-> [kid |-> signingKey.ID, iat |-> now,
                            exp |-> now + AuthExpiry(expired),
                            signedBy |-> signingKey.PrivateKey]] :
           signingKey \in GetSigningKey(expired) }

\* a client posts to /auth and holds the response
CallHandleAuth(method, expired) ==
    /\ Alive
    /\ lastCall = Nil
    /\ \E r \in HandleAuth(method, expired) :
          lastCall' = [t |-> "call", op |-> "handleAuth", method |-> method,
                       expired |-> expired, ret |-> r]
    /\ UNCHANGED <<now, keyLifetime, saved, visitors, exact, stoppedBefore, keyRetainPeriod, rows, keys, rotated, currentKey,
                   stopClosed, closeCount, panicked, stopPc, stopCalls, overlap,
                   mainPc, starts, newKey, rotPc, rotNext, rotPending, rotFailed,
                   cleanPc, cleanNext, cleanPending, lastCleanup>>

\* the manager as in LiveNext, serving /auth
AuthNext ==
    \/ \E n \in 0..3 : StartSeed(n)
    \/ \E ok \in BOOLEAN : StartRotate(ok)
    \/ StartFinish
    \/ \E c \in StopCallers : StopAlreadyClosed(c)
    \/ \E c \in StopCallers : StopDefault(c)
    \/ \E c \in StopCallers : StopClose(c)
    \/ \E g \in Tasks : RotStart(g)
    \/ \E g \in Tasks, ok \in BOOLEAN : RotTick(g, ok)
    \/ \E g \in Tasks : RotCache(g)
    \/ \E g \in Tasks : RotExit(g)
    \/ \E g \in Tasks : CleanStart(g)
    \/ \E g \in Tasks : CleanTick(g)
    \/ \E g \in Tasks : CleanExit(g)
    \/ Tick
    \/ \E method \in {"POST", "GET"}, expired \in BOOLEAN :
          CallHandleAuth(method, expired)
    \/ Return

AuthSpec == Init /\ [][AuthNext]_vars

\* ------------------------------------------- the rate limiter of /auth

\* AuthRateLimitMiddleware: allow(ip, 10, time.Second/10); the clock of the
\* limiter counts half refill periods
Capacity == 10
RefillRate == 2

ClientIPs == {"192.168.1.1", "10.0.0.7"}

Min(a, b) == IF a < b THEN a ELSE b

\* tokenBucket.consume at time t: the bucket afterwards and the answer
Consume(tb, t) ==
    LET elapsed == t - tb.lastRefill
        tokensToAdd == elapsed \div tb.refillRate
        filled == IF tokensToAdd > 0
                  THEN [tb EXCEPT !.tokens = Min(tb.capacity, tb.tokens + tokensToAdd),
                                  !.lastRefill = t]
                  ELSE tb
    IN  IF filled.tokens > 0
        THEN [bucket |-> [filled EXCEPT !.tokens = filled.tokens - 1], ok |-> TRUE]
        ELSE [bucket |-> filled, ok |-> FALSE]

\* the tokenBucket that allow makes for a new visitor
NewBucket(capacity, refillRate, t) ==
    [tokens |-> capacity, capacity |-> capacity, refillRate |-> refillRate,
     lastRefill |-> t]

\* rateLimiter.allow(ip, capacity, refillRate) at time t: the visitors
\* afterwards and the answer
Allow(table, ip, capacity, refillRate, t) ==
    LET tb == IF ip \in DOMAIN table THEN table[ip].limiter
              ELSE NewBucket(capacity, refillRate, t)
        c == Consume(tb, t)
    IN  [visitors |-> [i \in DOMAIN table \cup {ip} |->
                         IF i = ip THEN [limiter |-> c.bucket, lastSeen |-> t]
                         ELSE table[i]],
         ok |-> c.ok]

\* the bucket of the rate as stated: one token for every refill period
\* elapsed, the fraction of a period carried over, never above capacity
ExactConsume(b, t) ==
    LET add == (t - b.since) \div RefillRate
        tokens == Min(Capacity, b.tokens + add)
        since == IF b.tokens + add >= Capacity THEN t
                 ELSE b.since + (add * RefillRate)
    IN  IF tokens > 0
        THEN [bucket |-> [tokens |-> tokens - 1, since |-> since], ok |-> TRUE]
        ELSE [bucket |-> [tokens |-> tokens, since |-> since], ok |-> FALSE]

ExactAllow(table, ip, t) ==
    ExactConsume(IF ip \in DOMAIN table THEN table[ip]
                 ELSE [tokens |-> Capacity, since |-> t], t)

\* AuthRateLimitMiddleware on a request of client ip: 429, or the request
\* goes on to the handler
AuthRequest(ip) ==
    /\ lastCall' = [t |-> "call", op |-> "AuthRateLimitMiddleware", ip |-> ip,
                    status |-> IF Allow(visitors, ip, Capacity, RefillRate, now).ok
                               THEN 200 ELSE 429,
                    exact |-> ExactAllow(exact, ip, now).ok]
    /\ visitors' = Allow(visitors, ip, Capacity, RefillRate, now).visitors
    /\ exact' = [i \in DOMAIN exact \cup {ip} |->
                    IF i = ip THEN ExactAllow(exact, ip, now).bucket
                    ELSE exact[i]]
    /\ UNCHANGED <<now, keyLifetime, keyRetainPeriod, rows, saved, keys, stoppedBefore,
                   currentKey, rotated, stopClosed, closeCount, panicked,
                   stopPc, stopCalls, overlap, mainPc, starts, newKey, rotPc,
                   rotNext, rotPending, rotFailed, cleanPc, cleanNext,
                   cleanPending, lastCleanup>>

\* half a refill period passes
RateTick ==
    /\ now < MaxTime
    /\ now' = now + 1
    /\ lastCall' = Nil
    /\ UNCHANGED <<keyLifetime, keyRetainPeriod, rows, saved, keys, stoppedBefore,
                   currentKey, rotated, stopClosed, closeCount, panicked,
                   stopPc, stopCalls, overlap, mainPc, starts, newKey, rotPc,
                   rotNext, rotPending, rotFailed, cleanPc, cleanNext,
                   cleanPending, lastCleanup, visitors, exact>>

RateNext ==
    \/ \E ip \in ClientIPs : AuthRequest(ip)
    \/ RateTick

RateSpec == SealerInit /\ [][RateNext]_vars

\* ----------------------------------------------- the configured manager

\* what KEY_LIFETIME can hold: nothing, the text of a duration, other text
Unset == [t |-> "unset"]
EnvValues ==
    { Unset, [t |-> "text"] } \cup
    { [t |-> "duration", v |-> d] : d \in (0 - 1)..MaxLifetime }

\* time.ParseDuration
ParseDuration(text) ==
    IF text.t = "duration" THEN [err |-> "none", d |-> text.v]
    ELSE [err |-> "invalid duration", d |-> 0]

\* defaultKeyLifetime, ten minutes: the longest lifetime the model runs
DefaultKeyLifetime == MaxLifetime

\* NewConfig, as far as KeyLifetime goes: the default, or whatever duration
\* KEY_LIFETIME parses to
NewConfig(env) ==
    IF env = Unset THEN [err |-> "none", KeyLifetime |-> DefaultKeyLifetime]
    ELSE IF ParseDuration(env).err = "none"
    THEN [err |-> "none", KeyLifetime |-> ParseDuration(env).d]
    ELSE [err |-> "invalid KEY_LIFETIME", KeyLifetime |-> 0]

\* main: NewConfig, then keys.NewManager with the lifetime of the Config
ConfigInit ==
    /\ now = 0
    /\ keyLifetime \in { NewConfig(env).KeyLifetime :
                           env \in { e \in EnvValues : NewConfig(e).err = "none" } }
    /\ keyRetainPeriod \in 0..MaxRetain
    /\ rows \in PriorStores
    /\ saved = [k \in {} |-> Nil]
    /\ keys = [id \in {} |-> Nil]
    /\ currentKey = Nil
    /\ rotated = << >>
    /\ stopClosed = FALSE
    /\ closeCount = 0
    /\ panicked = FALSE
    /\ stopPc = [c \in StopCallers |-> "idle"]
    /\ stopCalls = 0
    /\ overlap = FALSE
    /\ mainPc = "new"
    /\ starts = 0
    /\ newKey = [p \in {Main} \cup Tasks |-> Nil]
    /\ rotPc = [g \in Tasks |-> "none"]
    /\ rotNext = [g \in Tasks |-> 0]
    /\ rotPending = [g \in Tasks |-> FALSE]
    /\ rotFailed = FALSE
    /\ cleanPc = [g \in Tasks |-> "none"]
    /\ cleanNext = [g \in Tasks |-> 0]
    /\ cleanPending = [g \in Tasks |-> FALSE]
    /\ lastCleanup = -1
    /\ visitors = [ip \in {} |-> Nil]
    /\ exact = [ip \in {} |-> Nil]
    /\ stoppedBefore = [g \in Tasks |-> FALSE]
    /\ lastCall = Nil

\* the manager of main, never stopped, and its callers
ConfigNext ==
    \/ \E n \in 0..3 : StartSeed(n)
    \/ \E ok \in BOOLEAN : StartRotate(ok)
    \/ StartFinish
    \/ \E g \in Tasks : RotStart(g)
    \/ \E g \in Tasks, ok \in BOOLEAN : RotTick(g, ok)
    \/ \E g \in Tasks : RotCache(g)
    \/ \E g \in Tasks : CleanStart(g)
    \/ \E g \in Tasks : CleanTick(g)
    \/ Tick
    \/ \E expired \in BOOLEAN : CallGetSigningKey(expired)
    \/ Return

ConfigSpec == ConfigInit /\ [][ConfigNext]_vars

\* ================================================================ claims

\* the answer in flight is one of GetSigningKey(expired)
Answered(expired) ==
    /\ lastCall # Nil
    /\ lastCall.op = "GetSigningKey"
    /\ lastCall.expired = expired

\* the store id a returned Key carries
RowOf(key) == CHOOSE i \in 1..Len(rows) : ToString(rows[i].kid) = key.ID

\* the ids of the non-expired rows
ValidKids == { rows[i].kid : i \in SelectRows(FALSE) }

\* C1: whenever a non-expired key is stored (and the store reads without
\* error), GetSigningKey(false) returns the non-expired key with the
\* greatest store id, and no other non-expired key.
C1_SigningKeyIsNewest ==
    (Answered(FALSE) /\ lastCall.dberr = "none" /\ ValidKids # {}) =>
        /\ lastCall.ret # Nil
        /\ \A k \in ValidKids : RowOf(lastCall.ret) >= k

\* C2: from the return of Start until Stop is called, as long as no
\* timer-triggered rotation failed, the store holds a key with exp > now.
C2_NoGap ==
    (mainPc = "running" /\ stopCalls = 0 /\ ~rotFailed) => ValidKids # {}

\* C3: a key whose expiry plus the retention period lies before a cleanup
\* that has run is purged: GetSigningKey(true) does not return it any more.
C3_Purged ==
    (Answered(TRUE) /\ lastCall.ret # Nil /\ lastCleanup >= 0) =>
        ~(rows[RowOf(lastCall.ret)].exp + keyRetainPeriod < lastCleanup)

\* nonce followed by an AEAD box, not a PEM block
IsSealerOutput(blob) ==
    /\ Len(blob) = NonceSize + 1
    /\ \A i \in 1..NonceSize : blob[i].t = "nonce"
    /\ blob[NonceSize + 1].t = "box"
    /\ \A i \in 1..NonceSize : blob[i].v = blob[NonceSize + 1].n

\* C4: every row of the keys table holds Sealer output (nonce followed by
\* the AEAD ciphertext), never the plain PEM serialization of the key.
C4_RowsSealed ==
    \A i \in 1..Len(rows) :
        /\ IsSealerOutput(rows[i].key)
        /\ \A j \in 1..Len(rows[i].key) : rows[i].key[j].t # "pem"

C4_Witness ==
    /\ mainPc = "running"
    /\ Len(rows) = MaxRows
    /\ rows[Len(rows)].key[NonceSize + 1].k = DeriveKey(EncryptionKey)

\* C5: a store or decryption failure met while answering GetSigningKey is
\* surfaced: the answer differs from the nil of "no key available".
C5_ErrorsSurfaced ==
    (lastCall # Nil /\ lastCall.dberr # "none") => lastCall.ret # Nil

\* C6: right after Start has returned nil, GetSigningKey(false) returns a
\* key, whatever the store held before.
C6_KeyAfterStart ==
    [][StartFinish => (\A r \in GetSigningKey(FALSE) : r # Nil)']_vars

\* C7: when Start has returned an error (seeding or the initial rotateKey
\* failed), neither the rotation task nor the cleanup task was launched.
C7_FailFast ==
    mainPc = "failed" => (rotPc[starts] = "none" /\ cleanPc[starts] = "none")

C7_Witness ==
    /\ mainPc = "failed"
    /\ Len(rows) = 4
    /\ rotPc[starts] = "none"

NoStopInFlight == \A c \in StopCallers : stopPc[c] = "idle"

\* C8: Stop calls made one after the other, before or after Start, never
\* panic, and stopCh is closed exactly once.
C8_StopIdempotent ==
    ~overlap =>
        /\ ~panicked
        /\ closeCount <= 1
        /\ (stopCalls >= 1 /\ NoStopInFlight) => (stopClosed /\ closeCount = 1)

C8_Witness ==
    /\ ~overlap
    /\ stopCalls >= 2
    /\ NoStopInFlight
    /\ closeCount = 1
    /\ mainPc = "running"

\* C9: under any interleaving of concurrent Stop calls close(stopCh) is
\* executed at most once and nothing panics.
C9_CloseOnce ==
    closeCount <= 1 /\ ~panicked

TasksAlive ==
    \E g \in Tasks :
        \/ rotPc[g] \in {"spawned", "select", "stored"}
        \/ cleanPc[g] \in {"spawned", "select"}

TasksOver ==
    \/ panicked
    \/ /\ ~TasksAlive
       /\ \E g \in Tasks : rotPc[g] = "done" /\ cleanPc[g] = "done"

C11_NoBodyAfterStop ==
    [][stopClosed =>
         ~(\E g \in Tasks : (\E ok \in BOOLEAN : RotTick(g, ok)) \/ CleanTick(g))]_vars

\* the loops launched and not yet returned
RotationTasks == { g \in Tasks : rotPc[g] \in {"spawned", "select", "stored"} }
CleanupTasks == { g \in Tasks : cleanPc[g] \in {"spawned", "select"} }

\* C12: at any time at most one rotation task and one cleanup task exist,
\* also when Start is called again on a running manager.
C12_OnePairOfTasks ==
    Cardinality(RotationTasks) <= 1 /\ Cardinality(CleanupTasks) <= 1

\* the cached ids a cleanup running now has to remove
Overdue == { id \in DOMAIN keys : keys[id].ExpiresAt < now - keyRetainPeriod }

\* C13: a cleanup removes from the cache exactly the keys whose ExpiresAt
\* is before now - keyRetainPeriod; every other cached key, expired or not,
\* stays as it was.
C13_CleanupFrame ==
    [][(\E g \in Tasks : CleanTick(g)) =>
          /\ DOMAIN keys' = DOMAIN keys \ Overdue
          /\ \A id \in DOMAIN keys' : keys'[id] = keys[id]]_vars

\* a cleanup has just removed the key of Start and kept an expired key
C13_Witness ==
    /\ lastCleanup = now
    /\ Len(rows) >= 4
    /\ rows[4].exp = keyLifetime
    /\ "4" \notin DOMAIN keys
    /\ \E id \in DOMAIN keys : keys[id].ExpiresAt < now

\* the ids in rotated, and the row an id names
RotatedIds == { rotated[i] : i \in 1..Len(rotated) }
RowOfId(id) == CHOOSE i \in 1..Len(rows) : ToString(rows[i].kid) = id

\* every cached key sits under its own store id and is the key of that row
CacheWellFormed ==
    \A id \in DOMAIN keys :
        /\ keys[id].ID = id
        /\ id \in RotatedIds
        /\ keys[id].ExpiresAt = rows[RowOfId(id)].exp
        /\ keys[id].PrivateKey = ReadRow(RowOfId(id)).key

\* currentKey is the key of the rotateKey call that held the lock last
CurrentIsLast ==
    IF rotated = << >> THEN currentKey = Nil
    ELSE /\ currentKey # Nil
         /\ currentKey.ID = rotated[Len(rotated)]
         /\ currentKey.ExpiresAt = rows[RowOfId(currentKey.ID)].exp

\* C14 as stated: after k successful rotateKey calls, however interleaved
\* with each other and with cleanup, the cache holds k distinct keys, each
\* under its own store id, and currentKey is the last one inserted.
C14_CacheHoldsAll ==
    /\ Cardinality(RotatedIds) = Len(rotated)
    /\ DOMAIN keys = RotatedIds
    /\ CacheWellFormed
    /\ CurrentIsLast

\* C14 amended: the same, except that a rotated key may be missing from
\* the cache when a cleanup that has run found it past its retention period.
C14_CacheIntact ==
    /\ Cardinality(RotatedIds) = Len(rotated)
    /\ CacheWellFormed
    /\ CurrentIsLast
    /\ \A id \in RotatedIds \ DOMAIN keys :
          /\ lastCleanup >= 0
          /\ rows[RowOfId(id)].exp < lastCleanup - keyRetainPeriod

\* two rotateKey calls overlapped (the second Start's and a timer's), the one
\* that stored first took the lock last, and a cleanup has removed a key
C14_Witness ==
    /\ Len(rotated) >= 3
    /\ \E i \in 1..Len(rotated) - 1 :
          RowOfId(rotated[i]) > RowOfId(rotated[i + 1])
    /\ RotatedIds \ DOMAIN keys # {}
    /\ DOMAIN keys # {}

\* the ids db.Manager.GetValidKeys / GetExpiredKeys return now
KidsOf(expired) == { k.kid : k \in getKeys(expired).keys }
StoredKids == { rows[i].kid : i \in 1..Len(rows) }

\* C15 as stated: at any instant, every stored key id is returned by
\* exactly one of GetValidKeys and GetExpiredKeys.
C15_Partition ==
    /\ KidsOf(FALSE) \cap KidsOf(TRUE) = {}
    /\ KidsOf(FALSE) \cup KidsOf(TRUE) = StoredKids

\* C15 amended: the two queries never overlap, each returns only stored ids
\* of its own side of now, and when both return without error every stored
\* id is in one of them; a query that meets a row it cannot decrypt returns
\* the error and no keys.
C15_PartitionWhenRead ==
    LET valid == getKeys(FALSE)
        expired == getKeys(TRUE)
        validKids == { k.kid : k \in valid.keys }
        expiredKids == { k.kid : k \in expired.keys }
    IN  /\ validKids \cap expiredKids = {}
        /\ \A i \in 1..Len(rows) :
              /\ rows[i].kid \in validKids => rows[i].exp > now
              /\ rows[i].kid \in expiredKids => rows[i].exp <= now
        /\ validKids \cup expiredKids \subseteq StoredKids
        /\ (valid.err = "none" /\ expired.err = "none") =>
              validKids \cup expiredKids = StoredKids
        /\ valid.err # "none" => valid.keys = {}
        /\ expired.err # "none" => expired.keys = {}

\* mixed expiries, one of them exactly now, both queries answer
C15_Witness ==
    /\ getKeys(FALSE).err = "none"
    /\ getKeys(TRUE).err = "none"
    /\ Cardinality(KidsOf(FALSE)) >= 2
    /\ Cardinality(KidsOf(TRUE)) >= 2
    /\ \E i \in 1..Len(rows) : rows[i].exp = now
    /\ \E i \in 1..Len(rows) : rows[i].exp < now

\* C16: GetSigningKey(true) returns nil when no stored key has exp <= now,
\* and otherwise a key of that expired partition, never a key with
\* exp > now.
C16_ExpiredOrNil ==
    Answered(TRUE) =>
        IF SelectRows(TRUE) = {}
        THEN lastCall.ret = Nil
        ELSE /\ lastCall.ret # Nil
             /\ RowOf(lastCall.ret) \in SelectRows(TRUE)

\* C17: the listing of GetJWKS has an entry for every stored key with
\* exp > now and for no other key.
C17_JWKSIsValidSet ==
    \A l \in GetJWKS :
        { l[i].kid : i \in 1..Len(l) } = { ToString(k) : k \in ValidKids }

\* C18: the listing of GetJWKS, and the slice of GetValidKeys it is built
\* from, are in strictly descending order of store id.
C18_NewestFirst ==
    /\ \A l \in GetJWKS : \A i \in 1..Len(l) - 1 :
          RowOfId(l[i].kid) > RowOfId(l[i + 1].kid)
    /\ \A l \in GetValidKeys : \A i \in 1..Len(l) - 1 :
          RowOf(l[i]) > RowOf(l[i + 1])

\* the key db.Manager.GetValidKeys / GetExpiredKeys return under id k
Lookup(expired, k) == { r.priv : r \in { x \in getKeys(expired).keys : x.kid = k } }

\* reading back what SaveKey saved under id k
PlainRoundTrip(k) ==
    GetKeyByKid(k) =
        [err |-> "none", Kid |-> k, Key |-> saved[k].priv, Exp |-> saved[k].exp]

\* reading back what StoreKey saved under id k: the key is on the side of
\* now its expiry puts it, and only there
SealedRoundTrip(k) ==
    /\ Lookup(saved[k].exp <= now, k) = { saved[k].priv }
    /\ Lookup(~(saved[k].exp <= now), k) = {}

\* C19 as stated: a key saved under id k is read back, at any later time,
\* with the modulus, the exponents and the expiry it was saved with:
\* by GetKeyByKid in the plaintext store, by GetValidKeys / GetExpiredKeys
\* in the encrypted store.
C19_RoundTrip ==
    \A k \in DOMAIN saved :
        IF saved[k].store = "plain" THEN PlainRoundTrip(k) ELSE SealedRoundTrip(k)

\* C19 amended: in the encrypted store the round trip holds whenever the
\* query of the key's side returns without error; when that query meets a
\* row it cannot decrypt or parse it returns the error and no key.
C19_RoundTripWhenRead ==
    \A k \in DOMAIN saved :
        IF saved[k].store = "plain" THEN PlainRoundTrip(k)
        ELSE IF getKeys(saved[k].exp <= now).err = "none"
             THEN SealedRoundTrip(k)
             ELSE /\ Lookup(TRUE, k) = {}
                  /\ Lookup(FALSE, k) = {}

\* a plaintext key and a sealed key have been saved, time has passed, the
\* sealed one has expired since, and the expired query has just returned it
C19_Witness ==
    /\ \E k \in DOMAIN saved : saved[k].store = "plain"
    /\ \E k \in DOMAIN saved :
          /\ saved[k].store = "sealed"
          /\ saved[k].exp = now
          /\ now > 0
          /\ lastCall # Nil
          /\ lastCall.op = "getKeys"
          /\ lastCall.expired
          /\ lastCall.ret.err = "none"
          /\ \E r \in lastCall.ret.keys : r.kid = k /\ r.priv = saved[k].priv

\* C20: for every non-empty passphrase and every byte sequence x, the
\* empty one included, Decrypt of Encrypt(x) by the same encryptor returns
\* x and no error.
C20_SealRoundTrip ==
    (/\ lastCall # Nil
     /\ lastCall.op = "Decrypt"
     /\ lastCall.passphrase = lastCall.sealedWith) =>
        lastCall.ret = [err |-> "none", data |-> lastCall.plaintext]

\* the empty sequence has been sealed and opened again
C20_Witness ==
    /\ lastCall # Nil
    /\ lastCall.op = "Decrypt"
    /\ lastCall.passphrase = lastCall.sealedWith
    /\ lastCall.plaintext = << >>
    /\ Len(lastCall.ciphertext) > NonceSize
    /\ lastCall.ret.err = "none"

\* C21: Decrypt on any blob shorter than the cipher's nonce, the empty blob
\* included, fails with ErrCiphertextTooShort and aead.Open is never
\* reached (its failure is the other error and it alone returns data).
C21_TooShort ==
    (/\ lastCall # Nil
     /\ lastCall.op = "DecryptBlob"
     /\ Len(lastCall.ciphertext) < NonceSize) =>
        /\ lastCall.ret.err = "ErrCiphertextTooShort"
        /\ lastCall.ret.data = << >>

C21_Witness ==
    /\ lastCall # Nil
    /\ lastCall.op = "DecryptBlob"
    /\ Len(lastCall.ciphertext) > 0
    /\ Len(lastCall.ciphertext) < NonceSize
    /\ lastCall.ciphertext[1].t = "nonce"
    /\ lastCall.ret.err = "ErrCiphertextTooShort"

\* the rows a query selects that were sealed under another passphrase
ForeignRows(expired) ==
    { i \in SelectRows(expired) :
        /\ IsSealerOutput(rows[i].key)
        /\ rows[i].key[NonceSize + 1].k # DeriveKey(EncryptionKey) }

\* C22: data sealed under one passphrase never opens under another: Decrypt
\* by the manager's encryptor fails on a row sealed under another
\* passphrase, and the read of a store holding such a row returns an error
\* and no keys.
C22_WrongPassphrase ==
    (/\ lastCall # Nil
     /\ lastCall.op = "getKeys"
     /\ ForeignRows(lastCall.expired) # {}) =>
        /\ \A i \in ForeignRows(lastCall.expired) :
              /\ Decrypt(EncryptionKey, rows[i].key).err # "none"
              /\ Decrypt(EncryptionKey, rows[i].key).data = << >>
              /\ Decrypt(OtherKey, rows[i].key).err = "none"
        /\ lastCall.ret.err # "none"
        /\ lastCall.ret.keys = {}

C22_Witness ==
    /\ lastCall # Nil
    /\ lastCall.op = "getKeys"
    /\ ForeignRows(lastCall.expired) # {}
    /\ ForeignRows(lastCall.expired) = SelectRows(lastCall.expired)
    /\ lastCall.ret.err # "none"

\* C23: NewEncryptor on the empty passphrase fails with ErrEmptyPassphrase
\* and returns no Encryptor; db.NewManager and keys.NewManager on the empty
\* encryption key fail and return no manager, with ErrEmptyPassphrase as
\* the cause whenever the database opened.
C23_EmptyPassphrase ==
    (lastCall # Nil /\ lastCall.passphrase = "") =>
        /\ lastCall.op = "NewEncryptor" =>
              /\ lastCall.ret.err = "ErrEmptyPassphrase"
              /\ lastCall.ret.key = Nil
        /\ lastCall.op = "db.NewManager" =>
              /\ lastCall.ret.mgr = Nil
              /\ lastCall.dbOk =>
                    lastCall.ret.err =
                        "failed to create encryptor: ErrEmptyPassphrase"
              /\ ~lastCall.dbOk =>
                    lastCall.ret.err = "failed to initialize database"
        /\ lastCall.op = "keys.NewManager" =>
              /\ lastCall.ret.mgr = Nil
              /\ lastCall.dbOk =>
                    lastCall.ret.err =
                        "failed to create database manager: failed to create encryptor: ErrEmptyPassphrase"
              /\ ~lastCall.dbOk =>
                    lastCall.ret.err =
                        "failed to create database manager: failed to initialize database"

C23_Witness ==
    /\ lastCall # Nil
    /\ lastCall.op = "keys.NewManager"
    /\ lastCall.passphrase = ""
    /\ lastCall.dbOk
    /\ lastCall.ret.mgr = Nil
    /\ lastCall.ret.err # "none"

RECURSIVE Split(_)
\* strings.Split(s, "."): the segments between the dots
Split(s) ==
    IF \A i \in 1..Len(s) : s[i] # "." THEN << s >>
    ELSE LET i == CHOOSE j \in 1..Len(s) :
                    s[j] = "." /\ \A k \in 1..(j - 1) : s[k] # "."
         IN  << SubSeq(s, 1, i - 1) >> \o Split(SubSeq(s, i + 1, Len(s)))

\* the characters of unpadded base64url (RFC 4648, table 2)
UrlSafe ==
    { "A", "B", "C", "D", "E", "F", "G", "H", "I", "J", "K", "L", "M",
      "N", "O", "P", "Q", "R", "S", "T", "U", "V", "W", "X", "Y", "Z",
      "a", "b", "c", "d", "e", "f", "g", "h", "i", "j", "k", "l", "m",
      "n", "o", "p", "q", "r", "s", "t", "u", "v", "w", "x", "y", "z",
      "0", "1", "2", "3", "4", "5", "6", "7", "8", "9", "-", "_" }

Returned(op) == lastCall # Nil /\ lastCall.t = "call" /\ lastCall.op = op

\* C24: every token returned by CreateJWT is 3 non-empty segments joined by
\* ".", each made of characters of the unpadded base64url alphabet only,
\* never "+", "/" or "=".
C24_ThreeSegments ==
    (Returned("CreateJWT") /\ lastCall.ret.err = "none") =>
        LET parts == Split(lastCall.ret.token) IN
        /\ Len(parts) = 3
        /\ \A i \in 1..Len(parts) :
              /\ parts[i] # << >>
              /\ \A j \in 1..Len(parts[i]) :
                    /\ parts[i][j] \in UrlSafe
                    /\ parts[i][j] \notin {"+", "/", "="}

C24_Witness ==
    /\ Returned("CreateJWT")
    /\ lastCall.ret.err = "none"
    /\ Len(Split(lastCall.ret.token)) = 3
    /\ Split(lastCall.ret.token)[3][1] \in {"-", "_"}

\* the value of a base64url symbol
SymbolValue(c) == (CHOOSE i \in 1..64 : Alphabet[i] = c) - 1

RECURSIVE DecodeGroups(_, _)
\* base64url decoding from offset i: up to 4 symbols give 24 bits, of
\* which the whole bytes that the symbols cover are kept
DecodeGroups(s, i) ==
    IF i >= Len(s) THEN << >>
    ELSE LET v1 == SymbolValue(s[i + 1])
             v2 == IF i + 1 < Len(s) THEN SymbolValue(s[i + 2]) ELSE 0
             v3 == IF i + 2 < Len(s) THEN SymbolValue(s[i + 3]) ELSE 0
             v4 == IF i + 3 < Len(s) THEN SymbolValue(s[i + 4]) ELSE 0
             combined == (v1 * 262144) + (v2 * 4096) + (v3 * 64) + v4
         IN  (IF i + 1 < Len(s) THEN << combined \div 65536 >> ELSE << >>)
             \o (IF i + 2 < Len(s)
                 THEN << (combined \div 256) % 256 >> ELSE << >>)
             \o (IF i + 3 < Len(s) THEN << combined % 256 >> ELSE << >>)
             \o DecodeGroups(s, i + 4)

DecodeBase64URL(s) == DecodeGroups(s, 0)

RECURSIVE ParseInt(_, _, _)
\* the decimal number that starts at position i
ParseInt(bytes, i, acc) ==
    IF i > Len(bytes) \/ bytes[i] < 48 \/ bytes[i] > 57 THEN acc
    ELSE ParseInt(bytes, i + 1, (acc * 10) + (bytes[i] - 48))

\* the number a JSON object gives to a name
JsonNumber(bytes, name) ==
    LET i == CHOOSE j \in 1..(Len(bytes) - Len(name)) :
                 \A k \in 1..Len(name) : bytes[j + k - 1] = name[k]
        v == i + Len(name)
    IN  IF bytes[v] = 45 THEN 0 - ParseInt(bytes, v + 1, 0)
        ELSE ParseInt(bytes, v, 0)

\* exp and iat as a client reads them in a token
TokenPayload(token) == DecodeBase64URL(Split(token)[2])
TokenExp(token) ==
    JsonNumber(TokenPayload(token), << 34, 101, 120, 112, 34, 58 >>)
TokenIat(token) ==
    JsonNumber(TokenPayload(token), << 34, 105, 97, 116, 34, 58 >>)

NegativeLifetime ==
    /\ Returned("CreateJWT")
    /\ lastCall.signed.err = "none"
    /\ lastCall.expiry < 0

\* C25 as stated: CreateJWT accepts a negative lifetime without error and
\* the token's exp is strictly less than its iat, for every negative
\* lifetime.
C25_ExpBeforeIat ==
    NegativeLifetime =>
        /\ lastCall.ret.err = "none"
        /\ TokenExp(lastCall.ret.token) < TokenIat(lastCall.ret.token)

\* C25: CreateJWT accepts a negative lifetime without error; the token has
\* iat = now and exp = now + lifetime in whole Unix seconds, so exp is never
\* after iat, and is strictly before it whenever the lifetime is at most
\* minus one second.
C25_ExpNotAfterIat ==
    NegativeLifetime =>
        /\ lastCall.ret.err = "none"
        /\ LET exp == TokenExp(lastCall.ret.token)
               iat == TokenIat(lastCall.ret.token)
           IN  /\ iat = Unix(lastCall.clock)
               /\ exp = Unix(lastCall.clock + lastCall.expiry)
               /\ exp <= iat
               /\ (lastCall.expiry <= 0 - TicksPerSecond) => exp < iat

C25_Witness ==
    /\ NegativeLifetime
    /\ lastCall.expiry > 0 - TicksPerSecond
    /\ lastCall.ret.err = "none"
    /\ TokenExp(lastCall.ret.token) = TokenIat(lastCall.ret.token)
    /\ TokenIat(lastCall.ret.token) > 0

\* the bits of a byte, first bit first
ByteBits(b) == [k \in 1..8 |-> (b \div (2 ^ (8 - k))) % 2]

RECURSIVE DataBits(_)
DataBits(data) ==
    IF data = << >> THEN << >> ELSE ByteBits(Head(data)) \o DataBits(Tail(data))

\* RFC 4648 base64url: the bits of the input, filled with zero bits to a
\* whole number of 6-bit groups, one symbol per group, then "=" up to a
\* multiple of 4 symbols
StdBase64URL(data) ==
    LET bits == DataBits(data) \o [k \in 1..((6 - (Len(DataBits(data)) % 6)) % 6) |-> 0]
        syms == [j \in 1..(Len(bits) \div 6) |->
                    Alphabet[(bits[6 * j - 5] * 32) + (bits[6 * j - 4] * 16)
                           + (bits[6 * j - 3] * 8) + (bits[6 * j - 2] * 4)
                           + (bits[6 * j - 1] * 2) + bits[6 * j] + 1]]
    IN  syms \o [k \in 1..((4 - (Len(syms) % 4)) % 4) |-> "="]

StripPadding(s) == SelectSeq(s, LAMBDA c : c # "=")

\* C26: encodeBase64URL returns the standard base64url encoding of its
\* input with all "=" padding removed: 4 symbols per full 3-byte group, 2
\* for a final 1-byte group, 3 for a final 2-byte group, and the empty
\* string for the empty input.
C26_UnpaddedBase64URL ==
    Returned("encodeBase64URL") =>
        LET n == Len(lastCall.data) IN
        /\ lastCall.ret = StripPadding(StdBase64URL(lastCall.data))
        /\ Len(lastCall.ret) =
              (4 * (n \div 3)) + (CASE n % 3 = 0 -> 0
                                    [] n % 3 = 1 -> 2
                                    [] n % 3 = 2 -> 3)
        /\ (n = 0) => lastCall.ret = << >>
        /\ DecodeBase64URL(lastCall.ret) = lastCall.data

C26_Witness ==
    /\ Returned("encodeBase64URL")
    /\ Len(lastCall.data) = 5
    /\ lastCall.data[1] = 255
    /\ Len(lastCall.ret) = 7
    /\ lastCall.ret[1] = "_"

\* a token of a non-expired key is in the client's hands
Minted ==
    /\ lastCall # Nil
    /\ lastCall.op = "handleAuth"
    /\ ~lastCall.expired
    /\ lastCall.ret.status = 200

\* C27: for every token minted with a non-expired key, the key's expiry is
\* not earlier than the token's own exp, so that the kid stays in the
\* published key set until the token expires.
C27_KeyOutlivesToken ==
    Minted => rows[RowOfId(lastCall.ret.token.kid)].exp >= lastCall.ret.token.exp

\* C28: for a client IP the /auth limiter admits the first 10 requests of
\* a burst and answers 429 to the next; after that it admits exactly one
\* further request per 100 ms elapsed; the tokens of a bucket never exceed
\* the capacity of 10.
C28_TenThenOnePerPeriod ==
    /\ \A ip \in DOMAIN visitors :
          visitors[ip].limiter.tokens \in 0..Capacity
    /\ (lastCall # Nil /\ lastCall.op = "AuthRateLimitMiddleware") =>
          (lastCall.status = 200) = lastCall.exact

\* a rotation loop takes its tick and no row is stored: rotateKey failed,
\* or the loop left on stopCh with the tick unread
TickWithoutKey(g) ==
    /\ rotPc[g] = "select"
    /\ rotPending[g]
    /\ ~rotPending'[g]
    /\ rows' = rows

\* C29: a failed timer-triggered rotateKey ends only its own cycle: the
\* rotation loop is back at its select and meets its next tick, the
\* cleanup loop and the cache are untouched, and a loop returns only when
\* stopCh is closed.
C29_FailedRotationGoesOn ==
    /\ [][\A g \in Tasks :
            /\ (TickWithoutKey(g) /\ ~stopClosed) =>
                  /\ rotPc'[g] = "select"
                  /\ rotFailed'
                  /\ keys' = keys /\ currentKey' = currentKey
                  /\ cleanPc' = cleanPc
                  /\ cleanPending' = cleanPending
                  /\ cleanNext' = cleanNext
            /\ (rotPc[g] # "done" /\ rotPc'[g] = "done") => stopClosed
            /\ (cleanPc[g] # "done" /\ cleanPc'[g] = "done") => stopClosed]_vars
    /\ \A g \in Tasks :
          (rotFailed /\ rotPc[g] = "select" /\ rotPending[g]) ~>
              (~rotPending[g] \/ panicked)

C29_Witness ==
    /\ rotFailed
    /\ ~stopClosed
    /\ ~panicked
    /\ rotPc[1] = "select"
    /\ rotPending[1]
    /\ cleanPc[1] = "select"
    /\ Len(rotated) > 1

\* C30: the answers GetValidKeys, GetSigningKey and GetJWKS can give depend
\* on the rows of the store and the clock, not on the cache or currentKey:
\* a step that changes the cache or currentKey and leaves the rows and the
\* clock as they are (a cleanup, the cache update of a rotation) changes
\* the answers of no query.
C30_StoreIsTheSource ==
    [][(/\ rows' = rows
        /\ now' = now
        /\ (keys' # keys \/ currentKey' # currentKey)) =>
          /\ GetValidKeys' = GetValidKeys
          /\ GetSigningKey(FALSE)' = GetSigningKey(FALSE)
          /\ GetSigningKey(TRUE)' = GetSigningKey(TRUE)
          /\ GetJWKS' = GetJWKS]_vars

C30_Witness ==
    /\ lastCleanup >= 0
    /\ currentKey # Nil
    /\ \E k \in GetSigningKey(TRUE) :
          /\ k # Nil
          /\ k.ID \in RotatedIds
          /\ k.ID \notin DOMAIN keys
    /\ \E k \in GetSigningKey(FALSE) : k # Nil /\ k.ID # currentKey.ID

ExpiresAfterCreated(key) == key.ExpiresAt > key.CreatedAt

\* C31: every Key the manager creates or returns has expiresAt > createdAt,
\* whatever key lifetime NewConfig accepted: the keys rotateKey builds (its
\* newKey, the cache, currentKey) and the keys GetValidKeys and
\* GetSigningKey build.
C31_ExpiresAfterCreated ==
    /\ \A p \in DOMAIN newKey : newKey[p] # Nil => ExpiresAfterCreated(newKey[p])
    /\ \A id \in DOMAIN keys : ExpiresAfterCreated(keys[id])
    /\ currentKey # Nil => ExpiresAfterCreated(currentKey)
    /\ \A expired \in BOOLEAN : \A k \in GetSigningKey(expired) :
          k # Nil => ExpiresAfterCreated(k)
    /\ \A s \in GetValidKeys : \A i \in 1..Len(s) : ExpiresAfterCreated(s[i])

\* no rotateKey is between its StoreKey and its cache update
RotationsCompleted ==
    /\ mainPc # "rotating"
    /\ \A g \in Tasks : rotPc[g] # "stored"

\* C32: once every concurrent rotateKey call has completed, currentKey is
\* the cached key with the greatest store-assigned id: the calls took the
\* cache lock in the order in which the store inserted their keys.
C32_CurrentIsGreatest ==
    (RotationsCompleted /\ currentKey # Nil) =>
        /\ \A id \in DOMAIN keys : RowOfId(id) <= RowOfId(currentKey.ID)
        /\ \A i \in 1..Len(rotated) - 1 :
              RowOfId(rotated[i]) < RowOfId(rotated[i + 1])

\* C33: whenever currentKey is not nil it is an entry of the keys cache,
\* whatever rotateKey calls (successful or failing) and cleanups have run.
C33_CurrentIsCached ==
    currentKey # Nil =>
        /\ currentKey.ID \in DOMAIN keys
        /\ keys[currentKey.ID] = currentKey

\* the step is a rotateKey call that returns an error: the one of Start, or
\* one of a rotation task, which goes back to its select without a key
FailedRotateKey ==
    \/ mainPc = "seeded" /\ mainPc' = "failed"
    \/ \E g \in Tasks :
          /\ rotPc[g] = "select" /\ rotPending[g]
          /\ rotPc'[g] = "select" /\ ~rotPending'[g]

\* the keys table has a row with this key id
Persisted(id) == \E i \in 1..Len(rows) : ToString(rows[i].kid) = id

\* C34: a rotateKey that fails leaves the keys map and currentKey as they
\* were, and a key enters the cache only after its row was stored: every
\* cached key has a row, with the key's expiry and private key.
C34_FailedRotateKeepsCache ==
    [][/\ FailedRotateKey => UNCHANGED <<keys, currentKey>>
       /\ \A id \in DOMAIN keys' \ DOMAIN keys : Persisted(id)
       /\ \A id \in DOMAIN keys' :
             /\ Persisted(id)'
             /\ keys'[id].ExpiresAt = rows'[RowOfId(id)'].exp
             /\ keys'[id].PrivateKey = ReadRow(RowOfId(id))'.key]_vars

\* a timer-triggered rotateKey has failed while the cache held the key of
\* Start, which is still current
C34_Witness ==
    /\ rotFailed
    /\ currentKey # Nil
    /\ currentKey.ID \in DOMAIN keys
    /\ mainPc = "running"

\* Key.IsExpired
IsExpired(key, t) == t > key.ExpiresAt

\* C35: every Key returned by GetValidKeys or GetSigningKey carries the
\* expiry persisted for its key id; a key of GetSigningKey(true) is
\* expired now and a key of GetValidKeys is not.
C35_PersistedExpiry ==
    /\ \A expired \in BOOLEAN :
          (Answered(expired) /\ lastCall.ret # Nil) =>
              /\ lastCall.ret.ExpiresAt = rows[RowOf(lastCall.ret)].exp
              /\ expired => IsExpired(lastCall.ret, now)
    /\ \A s \in GetValidKeys : \A i \in 1..Len(s) :
          /\ s[i].ExpiresAt = rows[RowOf(s[i])].exp
          /\ ~IsExpired(s[i], now)

\* the rows of a partition that fail to decrypt or to parse, and the others
BadRows(expired) == { i \in SelectRows(expired) : ReadRow(i).err # "none" }
GoodRows(expired) == SelectRows(expired) \ BadRows(expired)

\* C36: reads are all-or-nothing: when one row of the queried partition
\* fails to decrypt or to parse, getKeys returns an error and no keys, so
\* GetValidKeys returns the empty list and GetSigningKey returns nil, also
\* when every other row of the partition is good.
C36_AllOrNothing ==
    /\ \A expired \in BOOLEAN :
          BadRows(expired) # {} =>
              /\ getKeys(expired).err # "none"
              /\ getKeys(expired).keys = {}
              /\ GetSigningKey(expired) = {Nil}
              /\ Answered(expired) => lastCall.ret = Nil
    /\ BadRows(FALSE) # {} => GetValidKeys = { << >> }

\* GetSigningKey(false) has answered nil over a partition with one row
\* sealed under another passphrase and good rows stored by Start
C36_Witness ==
    /\ Answered(FALSE)
    /\ lastCall.ret = Nil
    /\ BadRows(FALSE) # {}
    /\ Cardinality(GoodRows(FALSE)) >= 2

C38_KidIsPublished ==
    Minted =>
        LET token == lastCall.ret.token IN
        \A jwks \in GetJWKS :
            \E i \in 1..Len(jwks) :
                /\ jwks[i].kid = token.kid
                /\ jwks[i].n = [base64url |-> token.signedBy.N]
                /\ jwks[i].e = [base64url |-> token.signedBy.E]

\* a token was issued while the store held expired keys and several valid
\* ones, the signing key not being the newest
C38_Witness ==
    /\ Minted
    /\ SelectRows(TRUE) # {}
    /\ Cardinality(SelectRows(FALSE)) >= 2
    /\ \E i \in SelectRows(FALSE) : rows[i].kid > RowOfId(lastCall.ret.token.kid)
    /\ mainPc = "running"
    /\ now > 0

\* C39: a failing Start leaves the store as it was: when the first Start
\* on a new database has returned an error (from seeding or from the
\* initial rotateKey), no key that call added is left in the keys table.
C39_FailedStartLeavesNoRows ==
    (mainPc = "failed" /\ starts = 1) => rows = << >>

====
